---- MODULE Spec2Model ----
(***************************************************************************)
(* Settlement-certificate correlation engine of the AggLayer dashboard:    *)
(* ContractInteractor.get_previous_settlement_event (the backward scanner),*)
(* _decode_settlement_event (the event decoder), call_agglayer_rpc and     *)
(* _enrich_settlement_with_certificate_data (the certificate correlator).  *)
(*                                                                         *)
(* Encoding of Python values.  Scalars met in dictionaries (hashes, roots, *)
(* heights, gas, ...) are strings, Python's None among them being the      *)
(* string None.  Objects that may be None (a JSON-RPC result, the decoded  *)
(* settlement, the block argument) are records; None is the record         *)
(* NoneObj, a truthy non-dictionary result is MalformedObj, and an integer *)
(* argument n that may be None is the record PyInt(n).  A dictionary is a  *)
(* record whose DOMAIN is its key set, so an absent key is a missing field.*)
(***************************************************************************)
EXTENDS Integers, Sequences, FiniteSets, TLC

\* ------------------------------------------------------------------ bounds
\* Number of full chunks below the starting block that the small chains span.
MaxChunks == 2
\* Largest number of matching logs on the chain.
MaxEvents == 2

\* --------------------------------------------------------- Python values
None == "None"
NoneObj == [none |-> TRUE]
MalformedObj == [malformed |-> TRUE]
PyInt(n) == [int |-> n]

\* dict.get(key): the value, or None when the key is absent.
Get(d, k) == IF k \in DOMAIN d THEN d[k] ELSE None

\* Mutant of Truthy: only None is false, the empty string is true.
Truthy_EmptyIsTrue(v) == v # None

\* Truth value of a scalar: None and the empty string are false.
Truthy(v) == v # None /\ v # ""

\* Mutant of TruthyObj: no object is taken for false.
TruthyObj_Always(o) == TRUE

\* Truth value of an object: None and the empty dictionary are false.
TruthyObj(o) == o # NoneObj /\ DOMAIN o # {}

\* Mutant of Update: the dictionary is replaced by the other one.
Update_Replace(d, other) == other

\* dict.update(other): keys of other are added or overwritten.
Update(d, other) ==
    [k \in DOMAIN d \cup DOMAIN other |-> IF k \in DOMAIN other THEN other[k] ELSE d[k]]

\* -------------------------------------------------------------- the chain
\* chunk_size = 1000
chunk_size == 1000

\* Blocks next to the boundaries of the scanner's windows: a window spans
\* chunk_size + 1 blocks, so the k-th boundary below a start s is s - k * (chunk_size + 1).
Boundaries(offsets) ==
    {k * (chunk_size + 1) + d : k \in 1..MaxChunks, d \in offsets}

\* Blocks that can hold a matching log.
EventBlocks == {0, 1} \cup Boundaries({0, 1})

\* Values of the argument current_settlement_block.
StartBlocks ==
    {NoneObj} \cup {PyInt(n) : n \in {-1, 0, 1, 2} \cup Boundaries({1, 2})}

TxHashes == <<"0xt1", "0xt2", "0xt3", "0xt4">>
Roots == <<"0xr1", "0xr2", "0xr3", "0xr4", "0xr5">>
RollupTopic == "0x0000000000000000000000000000000000000000000000000000000000000001"
AggregatorTopic == "0x000000000000000000000000aaaaaaaaaaaaaaaaaaaaaaaaaaaaaaaaaaaaaaaa"
EventSignature == "0xdf47e7dbf79874ec576f516c40bc1483f7c8ddf4b45bfd4baff4650f1229a711"

BlockHashes == <<"0xb1", "0xb2", "0xb3", "0xb4">>

\* The i-th matching log of the chain, in block b (whose hash is named after
\* the first log of that block, h), with nt topics.  The data section is the
\* sequence of its 32-byte words.
Log(i, b, h, nt) ==
    [blockNumber |-> b,
     blockHash |-> BlockHashes[h],
     transactionHash |-> TxHashes[i],
     topics |-> SubSeq(<<EventSignature, RollupTopic, AggregatorTopic>>, 1, nt),
     data |-> <<"0xpp", "0xnp", Roots[i], Roots[i + 1], "0xl1">>]

\* Index of the first log of bs that lies in the block of the i-th.
FirstInBlock(bs, i) == CHOOSE j \in 1..i : bs[j] = bs[i] /\ \A k \in 1..(j - 1) : bs[k] # bs[i]

\* Chains: at most MaxEvents matching logs in ascending block order (two logs
\* may share a block); a log carries 3 topics, or 2 when it is malformed, which
\* at most one log of a chain is.
Chains ==
    UNION {{[i \in 1..n |-> Log(i, bs[i], FirstInBlock(bs, i), nts[i])] :
                bs \in {f \in [1..n -> EventBlocks] :
                            \A i \in 1..n : \A j \in 1..n : i < j => f[i] <= f[j]},
                nts \in {f \in [1..n -> {2, 3}] :
                            Cardinality({i \in 1..n : f[i] = 2}) <= 1}} : n \in 0..MaxEvents}

\* ----------------------------------------------------- the chain's sources
\* w3.eth.get_logs(event_filter): the matching logs of blocks fromBlock..toBlock.
get_logs(logs, from_block, to_block) ==
    SelectSeq(logs, LAMBDA l : from_block <= l.blockNumber /\ l.blockNumber <= to_block)

\* w3.eth.get_block(number): timestamp and hash of the block.
get_block(logs, number) ==
    [timestamp |-> 12 * number,
     hash |-> (CHOOSE l \in {logs[i] : i \in 1..Len(logs)} : l.blockNumber = number).blockHash]

\* w3.eth.get_transaction_receipt(hash)
get_transaction_receipt(hash) == [gasUsed |-> "52000"]

\* Mutant of MaxByBlockNumber: the first log of the list is taken.
MaxByBlockNumber_First(logs) == logs[1]

\* max(logs, key=lambda x: x.blockNumber): the first log of the highest block.
MaxByBlockNumber(logs) ==
    logs[CHOOSE i \in 1..Len(logs) :
            /\ \A j \in 1..Len(logs) : logs[j].blockNumber <= logs[i].blockNumber
            /\ \A j \in 1..(i - 1) : logs[j].blockNumber < logs[i].blockNumber]

\* int(log.topics[1].hex(), 16)
HexToInt(topic) == IF topic = RollupTopic THEN "1" ELSE "0"

\* '0x' + log.topics[2].hex()[-40:]
AddressOf(topic) ==
    IF topic = AggregatorTopic THEN "0xaaaaaaaaaaaaaaaaaaaaaaaaaaaaaaaaaaaaaaaa" ELSE "0x"

\* Mutant of _decode_settlement_event: the block hash is set before the try
\* around the receipt fetch.
_decode_settlement_event_HashOutsideTry(logs, log, block_ok, receipt_ok) ==
    IF Len(log.topics) < 3
    THEN [settlement |-> NoneObj, fetched_block |-> FALSE, fetched_receipt |-> FALSE]
    ELSE IF ~block_ok
    THEN [settlement |-> NoneObj, fetched_block |-> TRUE, fetched_receipt |-> FALSE]
    ELSE LET block == get_block(logs, log.blockNumber)
             tx_receipt == get_transaction_receipt(log.transactionHash)
         IN [settlement |->
                [block_number |-> log.blockNumber,
                 transaction_hash |-> log.transactionHash,
                 timestamp |-> block.timestamp,
                 rollup_id |-> HexToInt(log.topics[2]),
                 trusted_aggregator |-> AddressOf(log.topics[3]),
                 prev_pessimistic_root |-> log.data[1],
                 new_pessimistic_root |-> log.data[2],
                 prev_local_exit_root |-> log.data[3],
                 new_local_exit_root |-> log.data[4],
                 l1_info_root |-> log.data[5],
                 settlement_gas_used |-> IF receipt_ok THEN tx_receipt.gasUsed ELSE None,
                 settlement_block_hash |-> block.hash],
             fetched_block |-> TRUE, fetched_receipt |-> TRUE]

\* _decode_settlement_event(log): the settlement record, or NoneObj when an
\* exception is caught; block_ok and receipt_ok tell whether get_block and
\* get_transaction_receipt answer.  fetched_block / fetched_receipt tell
\* whether the call was issued at all.
_decode_settlement_event(logs, log, block_ok, receipt_ok) ==
    IF Len(log.topics) < 3
    THEN [settlement |-> NoneObj, fetched_block |-> FALSE, fetched_receipt |-> FALSE]
    ELSE IF ~block_ok
    THEN [settlement |-> NoneObj, fetched_block |-> TRUE, fetched_receipt |-> FALSE]
    ELSE LET block == get_block(logs, log.blockNumber)
             tx_receipt == get_transaction_receipt(log.transactionHash)
         IN [settlement |->
                [block_number |-> log.blockNumber,
                 transaction_hash |-> log.transactionHash,
                 timestamp |-> block.timestamp,
                 rollup_id |-> HexToInt(log.topics[2]),
                 trusted_aggregator |-> AddressOf(log.topics[3]),
                 prev_pessimistic_root |-> log.data[1],
                 new_pessimistic_root |-> log.data[2],
                 prev_local_exit_root |-> log.data[3],
                 new_local_exit_root |-> log.data[4],
                 l1_info_root |-> log.data[5],
                 settlement_gas_used |-> IF receipt_ok THEN tx_receipt.gasUsed ELSE None,
                 settlement_block_hash |-> IF receipt_ok THEN block.hash ELSE None],
             fetched_block |-> TRUE, fetched_receipt |-> TRUE]

\* ------------------------------------------------------- the remote index
CertIds == <<"0xc1", "0xc2", "0xc3", "0xc4">>
Heights == <<"101", "102", "103", "104">>
Epochs == <<"11", "12", "13", "14">>
CertIndexes == <<"0", "1", "2", "3">>

\* The header of certificate i as the remote index serves it.
Header(i, tx, prev, new) ==
    [certificate_id |-> CertIds[i],
     height |-> Heights[i],
     epoch_number |-> Epochs[i],
     certificate_index |-> CertIndexes[i],
     settlement_tx_hash |-> tx,
     prev_local_exit_root |-> prev,
     new_local_exit_root |-> new]

\* The certificate that the i-th log of a chain settled.
Cert(i) == Header(i, TxHashes[i], Roots[i], Roots[i + 1])

\* Headers that share only one of the two local exit roots with Cert(1).
ForkedCerts ==
    {Header(1, None, Roots[1], "0xrf"), Header(1, None, "0xrf", Roots[2])}

\* A header that lacks the height, epoch and index keys.
PartialCert == [certificate_id |-> CertIds[1], settlement_tx_hash |-> TxHashes[1]]

\* A header that lacks the certificate_id key.
AnonymousCert == [height |-> Heights[1], settlement_tx_hash |-> None]

Certificates == {Cert(i) : i \in 1..MaxEvents}

\* Results the index can give to interop_getLatestSettledCertificateHeader.
SettledResults == {NoneObj, MalformedObj, PartialCert} \cup Certificates

\* Results the index can give to interop_getLatestKnownCertificateHeader.
KnownResults == {NoneObj, MalformedObj, AnonymousCert} \cup Certificates

\* Results the index can give to interop_getCertificateHeader.
HeaderResults ==
    {NoneObj, MalformedObj} \cup Certificates \cup ForkedCerts

\* What requests.post can end in: an exception (timeout, refused connection,
\* a body that is not JSON) or a response with a status code, possibly an
\* "error" member, and a "result" member.
HttpOutcomes(results) ==
    {[kind |-> "exception"]}
    \cup {[kind |-> "response", status_code |-> 500, has_error |-> FALSE, result |-> r] :
             r \in results \cap {Cert(1)}}
    \cup {[kind |-> "response", status_code |-> 200, has_error |-> TRUE, result |-> NoneObj]}
    \cup {[kind |-> "response", status_code |-> 200, has_error |-> FALSE, result |-> r] :
             r \in results}

\* call_agglayer_rpc(url, method, params): the result member, or None after
\* any exception, a status other than 200 or an error member.
call_agglayer_rpc(http) ==
    IF http.kind = "exception" THEN NoneObj
    ELSE IF http.status_code # 200 THEN NoneObj
    ELSE IF http.has_error THEN NoneObj
    ELSE http.result

\* The three methods of the remote index, in the order the correlator uses them.
SettledMethod == "interop_getLatestSettledCertificateHeader"
\* Mutant of KnownMethod: strategy 2 asks for the latest settled header again.
KnownMethod_SettledAgain == "interop_getLatestSettledCertificateHeader"
KnownMethod == "interop_getLatestKnownCertificateHeader"
HeaderMethod == "interop_getCertificateHeader"

\* Mutant of Unavailable: nulls instead of the 'N/A' marker.
Unavailable_Null ==
    [height |-> None, epoch_number |-> None,
     certificate_index |-> None, certificate_id |-> None]

\* The 'N/A' values attached when no certificate matched.
Unavailable ==
    [height |-> "N/A", epoch_number |-> "N/A",
     certificate_index |-> "N/A", certificate_id |-> "N/A"]

\* The four values adopted from a header.
Metadata(header) ==
    [height |-> Get(header, "height"),
     epoch_number |-> Get(header, "epoch_number"),
     certificate_index |-> Get(header, "certificate_index"),
     certificate_id |-> Get(header, "certificate_id")]

\* Mutant of SettledMatches: the header is asked for the wrong key.
SettledMatches_WrongKey(header, s) ==
    Get(header, "transaction_hash") = Get(s, "transaction_hash")

\* Mutant of SettledMatches: a settlement that already carries a certificate
\* identifier is not matched again.
SettledMatches_UnlessEnriched(header, s) ==
    /\ Get(header, "settlement_tx_hash") = Get(s, "transaction_hash")
    /\ Get(s, "certificate_id") = None

\* latest_settled.get('settlement_tx_hash') == settlement_tx_hash
SettledMatches(header, s) ==
    Get(header, "settlement_tx_hash") = Get(s, "transaction_hash")

\* Mutant of RootsMatch: one equal root is enough.
RootsMatch_EitherRoot(header, s) ==
    \/ Get(header, "prev_local_exit_root") = Get(s, "prev_local_exit_root")
    \/ Get(header, "new_local_exit_root") = Get(s, "new_local_exit_root")

\* cert_header's two local exit roots equal the settlement's
RootsMatch(header, s) ==
    /\ Get(header, "prev_local_exit_root") = Get(s, "prev_local_exit_root")
    /\ Get(header, "new_local_exit_root") = Get(s, "new_local_exit_root")

\* ------------------------------------------------------------------ state
VARIABLES
    pc,                        \* position in get_previous_settlement_event
    current_settlement_block,  \* argument: PyInt(n) or NoneObj
    agg_layer_url,             \* argument: a URL, "" or None
    chain,                     \* the matching logs the log source holds
    search_block,              \* local search_block
    settlement,                \* local settlement (NoneObj before decoding)
    latest_settled,            \* local latest_settled of the correlator
    latest_known,              \* local latest_known of the correlator
    cert_header,               \* local cert_header of the correlator
    queries,                   \* get_logs calls issued: [fromBlock, toBlock, ok]
    block_fetches,             \* get_block calls issued: [blockNumber, ok]
    receipt_fetches,           \* get_transaction_receipt calls: [transactionHash, ok]
    rpc_calls,                 \* call_agglayer_rpc calls issued: [method, params]
    result,                    \* the list returned to the caller
    raised,                    \* an exception left get_previous_settlement_event
    now,                       \* datetime.now() as get_relative_time reads it
    timestamp,                 \* argument of get_relative_time
    relative_time,             \* the text get_relative_time returned, by parts
    index,                     \* what the remote index answers to each method
    given,                     \* the settlement a first correlator call was given
    returned,                  \* the list a first correlator call returned
    request,                   \* the request or call being served, with its inputs
    response,                  \* the answer given to it (NoneObj while serving)
    sent,                      \* transactions handed to send_raw_transaction
    posts                      \* requests.post calls issued: [url, method, params]

\* The variables of get_relative_time; the scanner, the decoder and the
\* correlator leave them alone.
clock == <<now, timestamp, relative_time>>

vars == <<pc, current_settlement_block, agg_layer_url, chain, search_block,
          settlement, latest_settled, latest_known, cert_header, queries,
          block_fetches, receipt_fetches, rpc_calls, result, raised,
          now, timestamp, relative_time, index, given, returned,
          request, response, sent, posts>>

\* The variables of a repeated correlator call; one scan leaves them alone.
repeat == <<index, given, returned>>

\* The variables of the web handlers and of one call_agglayer_rpc call.
web == <<request, response, sent, posts>>

\* What no action of the scanner, the decoder or the correlator touches.
apart == <<clock, repeat, web>>

\* No call of get_relative_time is in progress.
ClockIdle ==
    /\ now = [seconds |-> 0, fraction |-> FALSE]
    /\ timestamp = 0
    /\ relative_time = <<>>

\* No correlator call is being repeated.
RepeatIdle ==
    /\ index = NoneObj
    /\ given = NoneObj
    /\ returned = <<>>

\* No web request is being served.
WebIdle ==
    /\ request = NoneObj
    /\ response = NoneObj
    /\ sent = <<>>
    /\ posts = <<>>

Urls == {None, "", "http://agglayer"}

Init ==
    /\ pc = "call"
    /\ current_settlement_block \in StartBlocks
    /\ agg_layer_url \in Urls
    /\ chain \in Chains
    /\ search_block = 0
    /\ settlement = NoneObj
    /\ latest_settled = NoneObj
    /\ latest_known = NoneObj
    /\ cert_header = NoneObj
    /\ queries = <<>>
    /\ block_fetches = <<>>
    /\ receipt_fetches = <<>>
    /\ rpc_calls = <<>>
    /\ result = <<>>
    /\ raised = FALSE
    /\ ClockIdle
    /\ RepeatIdle
    /\ WebIdle

\* return <value> from get_previous_settlement_event
Return(value) ==
    /\ pc' = "done"
    /\ result' = value
    /\ raised' = FALSE

\* Mutant of Caught: the exception is not caught and leaves the function.
Caught_Propagates ==
    /\ pc' = "done"
    /\ result' = <<>>
    /\ raised' = TRUE

\* Mutant of Caught: the exception is swallowed and the loop goes on, with
\* the search block it had.
Caught_Retries ==
    /\ pc' = "loop"
    /\ UNCHANGED <<result, raised>>

\* except Exception as e: ... return []
Caught ==
    Return(<<>>)

\* if not current_settlement_block or current_settlement_block <= 0
InvalidBlock(csb) == csb = NoneObj \/ csb.int = 0 \/ csb.int <= 0

\* Mutant of Call: an invalid block falls back to a search from the head of
\* the chain (as get_recent_settlement_events does) instead of returning.
Call_FallBackToHead ==
    /\ pc = "call"
    /\ search_block' = IF InvalidBlock(current_settlement_block)
                       THEN MaxChunks * (chunk_size + 1) + 1
                       ELSE current_settlement_block.int - 1
    /\ pc' = "loop"
    /\ UNCHANGED <<current_settlement_block, agg_layer_url, chain, settlement,
                   latest_settled, latest_known, cert_header, queries,
                   block_fetches, receipt_fetches, rpc_calls, result, raised>>
    /\ UNCHANGED apart

\* Entry of get_previous_settlement_event up to the loop.
Call ==
    /\ pc = "call"
    /\ IF InvalidBlock(current_settlement_block)
       THEN /\ Return(<<>>)
            /\ UNCHANGED search_block
       ELSE /\ search_block' = current_settlement_block.int - 1
            /\ pc' = "loop"
            /\ UNCHANGED <<result, raised>>
    /\ UNCHANGED <<current_settlement_block, agg_layer_url, chain, settlement,
                   latest_settled, latest_known, cert_header, queries,
                   block_fetches, receipt_fetches, rpc_calls>>
    /\ UNCHANGED apart

\* while search_block > 0
LoopCondition(sb) == sb > 0

\* Mutant of FromBlock: a window of exactly chunk_size blocks.
FromBlock_ChunkSizeBlocks(sb) == IF sb - chunk_size + 1 > 0 THEN sb - chunk_size + 1 ELSE 0

\* from_block = max(0, search_block - chunk_size)
FromBlock(sb) == IF sb - chunk_size > 0 THEN sb - chunk_size ELSE 0

\* Mutant of ToBlock: the window ends one block later.
ToBlock_OneLater(sb) == sb + 1

\* to_block = search_block
ToBlock(sb) == sb

\* Mutant of NextSearchBlock: the next window ends where this one ended.
NextSearchBlock_SameWindow(from_block, to_block) == to_block

\* search_block = from_block - 1
NextSearchBlock(from_block, to_block) == from_block - 1

\* Mutant of SettlementFound: the decoded settlement is not returned and the
\* scan moves on to the next chunk.
SettlementFound_Never(logs, decoded) == FALSE

\* if logs: ... settlement = self._decode_settlement_event(latest_log);
\* if settlement: ... return [settlement]
SettlementFound(logs, decoded) == logs # <<>> /\ decoded # NoneObj

\* The loop condition is false: "No previous settlements found", return [].
LoopExit ==
    /\ pc = "loop"
    /\ ~LoopCondition(search_block)
    /\ Return(<<>>)
    /\ UNCHANGED <<current_settlement_block, agg_layer_url, chain, search_block,
                   settlement, latest_settled, latest_known, cert_header, queries,
                   block_fetches, receipt_fetches, rpc_calls>>
    /\ UNCHANGED apart

\* One iteration of the loop: the get_logs call, the choice of the latest
\* log, its decoding, and then either the hand-over to the correlator, the
\* return of the bare settlement, or the move to the next chunk.
Iterate(logs_ok, block_ok, receipt_ok) ==
    /\ pc = "loop"
    /\ LoopCondition(search_block)
    /\ LET from_block == FromBlock(search_block)
           to_block == ToBlock(search_block)
           logs == get_logs(chain, from_block, to_block)
           decoded == _decode_settlement_event(chain, MaxByBlockNumber(logs),
                                               block_ok, receipt_ok)
           found == logs_ok /\ SettlementFound(logs, decoded.settlement)
       IN /\ queries' = Append(queries, [fromBlock |-> from_block,
                                         toBlock |-> to_block, ok |-> logs_ok])
          /\ block_fetches' =
                IF logs_ok /\ logs # <<>> /\ decoded.fetched_block
                THEN Append(block_fetches,
                            [blockNumber |-> MaxByBlockNumber(logs).blockNumber,
                             ok |-> block_ok])
                ELSE block_fetches
          /\ receipt_fetches' =
                IF logs_ok /\ logs # <<>> /\ decoded.fetched_receipt
                THEN Append(receipt_fetches,
                            [transactionHash |-> MaxByBlockNumber(logs).transactionHash,
                             ok |-> receipt_ok])
                ELSE receipt_fetches
          /\ IF ~logs_ok
             THEN /\ Caught
                  /\ UNCHANGED <<search_block, settlement>>
             ELSE IF found
             THEN /\ settlement' = decoded.settlement
                  /\ UNCHANGED search_block
                  /\ IF Truthy(agg_layer_url)
                        /\ Truthy(Get(decoded.settlement, "transaction_hash"))
                     THEN /\ pc' = "enrich"
                          /\ UNCHANGED <<result, raised>>
                     ELSE Return(<<decoded.settlement>>)
             ELSE /\ search_block' = NextSearchBlock(from_block, to_block)
                  /\ UNCHANGED settlement
                  /\ IF from_block = 0
                     THEN Return(<<>>)
                     ELSE /\ pc' = "loop"
                          /\ UNCHANGED <<result, raised>>
    /\ UNCHANGED <<current_settlement_block, agg_layer_url, chain,
                   latest_settled, latest_known, cert_header, rpc_calls>>
    /\ UNCHANGED apart

\* settlement.update({... 'N/A' ...}); return settlement
ReturnUnavailable ==
    /\ settlement' = Update(settlement, Unavailable)
    /\ Return(<<Update(settlement, Unavailable)>>)

\* Mutant of ReturnAdopted: the identifier is read from latest_known instead
\* of the header that matched.
ReturnAdopted_IdOfLatestKnown(header) ==
    LET mixed == [Metadata(header) EXCEPT !.certificate_id = Get(latest_known, "certificate_id")]
    IN /\ settlement' = Update(settlement, mixed)
       /\ Return(<<Update(settlement, mixed)>>)

\* settlement.update({... header.get(...) ...}); return settlement
ReturnAdopted(header) ==
    /\ settlement' = Update(settlement, Metadata(header))
    /\ Return(<<Update(settlement, Metadata(header))>>)

\* _enrich_settlement_with_certificate_data up to the end of strategy 1.
EnrichSettled(http) ==
    /\ pc = "enrich"
    /\ LET header == call_agglayer_rpc(http)
       IN /\ latest_settled' = header
          /\ rpc_calls' = Append(rpc_calls,
                [method |-> SettledMethod,
                 params |-> <<"rollup_id">>])
          /\ IF ~TruthyObj(header) \/ header = MalformedObj
             THEN ReturnUnavailable
             ELSE IF SettledMatches(header, settlement)
             THEN ReturnAdopted(header)
             ELSE /\ pc' = "enrich_known"
                  /\ UNCHANGED <<settlement, result, raised>>
    /\ UNCHANGED <<current_settlement_block, agg_layer_url, chain, search_block,
                   latest_known, cert_header, queries, block_fetches,
                   receipt_fetches>>
    /\ UNCHANGED apart

\* Strategy 2, first call: the latest known certificate.
EnrichKnown(http) ==
    /\ pc = "enrich_known"
    /\ LET header == call_agglayer_rpc(http)
       IN /\ latest_known' = header
          /\ rpc_calls' = Append(rpc_calls,
                [method |-> KnownMethod,
                 params |-> <<"rollup_id">>])
          /\ IF TruthyObj(header) /\ header # MalformedObj
                /\ Truthy(Get(header, "certificate_id"))
             THEN /\ pc' = "enrich_header"
                  /\ UNCHANGED <<settlement, result, raised>>
             ELSE ReturnUnavailable
    /\ UNCHANGED <<current_settlement_block, agg_layer_url, chain, search_block,
                   latest_settled, cert_header, queries, block_fetches,
                   receipt_fetches>>
    /\ UNCHANGED apart

\* Mutant of HeaderParams: the header is asked for by height.
HeaderParams_ByHeight(known) == <<known.height>>

\* [latest_known['certificate_id']]
HeaderParams(known) == <<known.certificate_id>>

\* Strategy 2, second call: the header of the latest known certificate.
EnrichHeader(http) ==
    /\ pc = "enrich_header"
    /\ LET header == call_agglayer_rpc(http)
       IN /\ cert_header' = header
          /\ rpc_calls' = Append(rpc_calls,
                [method |-> HeaderMethod,
                 params |-> HeaderParams(latest_known)])
          /\ IF TruthyObj(header) /\ header # MalformedObj
                /\ RootsMatch(header, settlement)
             THEN ReturnAdopted(header)
             ELSE ReturnUnavailable
    /\ UNCHANGED <<current_settlement_block, agg_layer_url, chain, search_block,
                   latest_settled, latest_known, queries, block_fetches,
                   receipt_fetches>>
    /\ UNCHANGED apart

Next ==
    \/ Call
    \/ LoopExit
    \/ \E logs_ok \in BOOLEAN, block_ok \in BOOLEAN, receipt_ok \in BOOLEAN :
          Iterate(logs_ok, block_ok, receipt_ok)
    \/ \E http \in HttpOutcomes(SettledResults) : EnrichSettled(http)
    \/ \E http \in HttpOutcomes(KnownResults) : EnrichKnown(http)
    \/ \E http \in HttpOutcomes(HeaderResults) : EnrichHeader(http)

Spec == Init /\ [][Next]_vars

\* ------------------------------------------------- the end-to-end scenario
\* chunk size 1000, currentSettlementBlock = 500000 and one matching log
\* somewhere in blocks 498000..499000, on sources that always answer (the
\* receipt source may still fail, which does not stop the decoding).
InitE2E ==
    /\ pc = "call"
    /\ current_settlement_block = PyInt(500000)
    /\ agg_layer_url = None
    /\ chain \in {<<Log(1, b, 1, 3)>> : b \in 498000..499000}
    /\ search_block = 0
    /\ settlement = NoneObj
    /\ latest_settled = NoneObj
    /\ latest_known = NoneObj
    /\ cert_header = NoneObj
    /\ queries = <<>>
    /\ block_fetches = <<>>
    /\ receipt_fetches = <<>>
    /\ rpc_calls = <<>>
    /\ result = <<>>
    /\ raised = FALSE
    /\ ClockIdle
    /\ RepeatIdle
    /\ WebIdle

NextE2E ==
    \/ Call
    \/ \E receipt_ok \in BOOLEAN : Iterate(TRUE, TRUE, receipt_ok)

SpecE2E == InitE2E /\ [][NextE2E]_vars

\* ----------------------------------------------------------------- claims
Done == pc = "done"

\* Every get_logs and get_block call so far was answered.
AllFetchesOk ==
    /\ \A i \in 1..Len(queries) : queries[i].ok
    /\ \A i \in 1..Len(block_fetches) : block_fetches[i].ok

\* Every log of the chain carries its three topics.
AllLogsWellFormed == \A i \in 1..Len(chain) : Len(chain[i].topics) >= 3

\* Blocks of the matching logs strictly before current_settlement_block.
PriorBlocks ==
    {chain[i].blockNumber : i \in {j \in 1..Len(chain) :
        chain[j].blockNumber < current_settlement_block.int}}

Highest(blocks) == CHOOSE b \in blocks : \A c \in blocks : c <= b

\* C1: for a positive current_settlement_block, answering sources and
\* well-formed logs, the scanner returns at most one event, namely the
\* matching event of the highest block in 0..current_settlement_block-1, and
\* the empty list only when that range holds no matching event.
C1_NearestPriorEvent ==
    (Done /\ ~InvalidBlock(current_settlement_block) /\ AllFetchesOk /\ AllLogsWellFormed)
        => /\ Len(result) <= 1
           /\ IF PriorBlocks = {}
              THEN result = <<>>
              ELSE /\ Len(result) = 1
                   /\ result[1].block_number = Highest(PriorBlocks)

\* C2: for a current_settlement_block that is None, zero or negative the
\* scanner returns the empty list and issues no get_logs, get_block,
\* get_transaction_receipt or remote-index call.
C2_InvalidBlockFetchesNothing ==
    InvalidBlock(current_settlement_block)
        => /\ pc \in {"call", "done"}
           /\ result = <<>>
           /\ queries = <<>>
           /\ block_fetches = <<>>
           /\ receipt_fetches = <<>>
           /\ rpc_calls = <<>>

C2_Witness ==
    /\ Done
    /\ current_settlement_block = NoneObj
    /\ Len(chain) = MaxEvents
    /\ Truthy(agg_layer_url)

\* C3: when the scanner, started with a positive block on a log source that
\* never fails, is done with an empty result, one of its queries had
\* fromBlock = 0, and the queried windows cover 0..current_settlement_block-1.
C3_EmptyResultReachedBlockZero ==
    (/\ Done
     /\ ~InvalidBlock(current_settlement_block)
     /\ \A i \in 1..Len(queries) : queries[i].ok
     /\ result = <<>>)
        => /\ \E i \in 1..Len(queries) : queries[i].fromBlock = 0
           /\ \A b \in {0, current_settlement_block.int - 1} :
                 \E i \in 1..Len(queries) :
                    queries[i].fromBlock <= b /\ b <= queries[i].toBlock

\* The i-th query was answered with logs whose latest entry decoded.
DecodedAt(i) ==
    LET logs == get_logs(chain, queries[i].fromBlock, queries[i].toBlock)
    IN /\ queries[i].ok
       /\ logs # <<>>
       /\ Len(MaxByBlockNumber(logs).topics) >= 3
       /\ \E j \in 1..Len(block_fetches) :
             block_fetches[j] = [blockNumber |-> MaxByBlockNumber(logs).blockNumber,
                                 ok |-> TRUE]

\* C4: once a query has returned logs whose selected entry decodes, that
\* query stays the last one (no farther chunk is queried) and the scanner
\* is on its way to, or at, DONE with that entry as its single result.
C4_StopsAtFirstMatch ==
    \A i \in 1..Len(queries) :
        DecodedAt(i)
            => LET latest_log ==
                      MaxByBlockNumber(get_logs(chain, queries[i].fromBlock,
                                                queries[i].toBlock))
               IN /\ i = Len(queries)
                  /\ pc \in {"enrich", "enrich_known", "enrich_header", "done"}
                  /\ Done => /\ Len(result) = 1
                             /\ result[1].block_number = latest_log.blockNumber
                             /\ result[1].transaction_hash = latest_log.transactionHash

C4_Witness ==
    /\ Done
    /\ Len(queries) = 2
    /\ DecodedAt(2)
    /\ Len(chain) = 2
    /\ chain[1].blockNumber < queries[2].fromBlock

\* C5 as claimed: in the end-to-end scenario the scanner issues exactly two
\* queries, none with a negative fromBlock, and returns the log.
C5_ExactlyTwoQueries ==
    Done => /\ Len(queries) = 2
            /\ \A i \in 1..Len(queries) : queries[i].fromBlock >= 0
            /\ Len(result) = 1
            /\ result[1].block_number = chain[1].blockNumber

\* C5 as amended: in the end-to-end scenario the scanner returns the log
\* after exactly two queries when the log lies in 498000..498998 and after
\* exactly one when it lies in 498999..499000 (inside the first window
\* 498999..499999); no query has a negative fromBlock.
C5_QueriesNeededToReachLog ==
    Done => /\ Len(queries) = (IF chain[1].blockNumber >= 498999 THEN 1 ELSE 2)
            /\ \A i \in 1..Len(queries) : queries[i].fromBlock >= 0
            /\ Len(result) = 1
            /\ result[1].block_number = chain[1].blockNumber

C5_Witness ==
    /\ Done
    /\ chain[1].blockNumber = 498998
    /\ Len(queries) = 2
    /\ Len(result) = 1

\* A result of the remote index that is a non-empty dictionary.
IsHeader(o) == o # NoneObj /\ o # MalformedObj /\ DOMAIN o # {}

EnrichmentKeys == {"height", "epoch_number", "certificate_index", "certificate_id"}

\* The four enrichment values of a settlement that carries them.
Enrichment(s) == [k \in EnrichmentKeys |-> s[k]]

\* The four values of a header, None for a key the header lacks.
HeaderValues(header) ==
    [k \in EnrichmentKeys |-> IF k \in DOMAIN header THEN header[k] ELSE None]

AllUnavailable == [k \in EnrichmentKeys |-> "N/A"]

\* Strategy 1 succeeded: the latest settled header names the settlement's transaction.
Strategy1Succeeded ==
    /\ IsHeader(latest_settled)
    /\ "settlement_tx_hash" \in DOMAIN latest_settled
    /\ latest_settled.settlement_tx_hash = settlement.transaction_hash

\* Strategy 2 succeeded: the fetched header has both local exit roots of the settlement.
Strategy2Succeeded ==
    /\ IsHeader(cert_header)
    /\ {"prev_local_exit_root", "new_local_exit_root"} \subseteq DOMAIN cert_header
    /\ cert_header.prev_local_exit_root = settlement.prev_local_exit_root
    /\ cert_header.new_local_exit_root = settlement.new_local_exit_root

\* C6: whatever the log source, the block and receipt source and the remote
\* index do, get_previous_settlement_event called with a remote index URL
\* never raises, and returns the empty list or one settlement whose four
\* enrichment fields are those of a matching certificate or all 'N/A'.
C6_NeverRaisesEmptyOrEnriched ==
    /\ ~raised
    /\ (Done /\ Truthy(agg_layer_url))
          => \/ result = <<>>
             \/ /\ Len(result) = 1
                /\ EnrichmentKeys \subseteq DOMAIN result[1]
                /\ \/ Enrichment(result[1]) = AllUnavailable
                   \/ Strategy1Succeeded /\ Enrichment(result[1]) = HeaderValues(latest_settled)
                   \/ Strategy2Succeeded /\ Enrichment(result[1]) = HeaderValues(cert_header)

C6_Witness ==
    /\ Done
    /\ ~raised
    /\ Len(queries) = 2
    /\ \E i \in 1..Len(block_fetches) : ~block_fetches[i].ok
    /\ \E i \in 1..Len(receipt_fetches) : ~receipt_fetches[i].ok
    /\ Len(rpc_calls) = 1
    /\ latest_settled = NoneObj
    /\ Len(result) = 1
    /\ result[1].certificate_id = "N/A"
    /\ result[1].settlement_gas_used = None

\* C7: the four enrichment fields of a result are all present or all absent,
\* and when present they are the four values of one header the remote index
\* returned (latest settled, or the header fetched by id) or all 'N/A'.
C7_EnrichmentFromOneCertificate ==
    (Done /\ Len(result) = 1)
        => \/ EnrichmentKeys \cap DOMAIN result[1] = {}
           \/ /\ EnrichmentKeys \subseteq DOMAIN result[1]
              /\ \/ Enrichment(result[1]) = AllUnavailable
                 \/ IsHeader(latest_settled)
                       /\ Enrichment(result[1]) = HeaderValues(latest_settled)
                 \/ IsHeader(cert_header)
                       /\ Enrichment(result[1]) = HeaderValues(cert_header)

C7_Witness ==
    /\ Done
    /\ Len(result) = 1
    /\ IsHeader(latest_settled)
    /\ IsHeader(latest_known)
    /\ IsHeader(cert_header)
    /\ Get(latest_known, "certificate_id") # Get(cert_header, "certificate_id")
    /\ Get(latest_settled, "certificate_id") # Get(cert_header, "certificate_id")
    /\ EnrichmentKeys \subseteq DOMAIN result[1]
    /\ Enrichment(result[1]) = HeaderValues(cert_header)

\* C8: when the latest settled header names the settlement's transaction the
\* correlator adopts its four values and issues that one remote call only.
C8_Strategy1StopsTheSearch ==
    (settlement # NoneObj /\ Strategy1Succeeded)
        => /\ Done
           /\ Len(rpc_calls) = 1
           /\ rpc_calls[1].method = "interop_getLatestSettledCertificateHeader"
           /\ latest_known = NoneObj
           /\ cert_header = NoneObj
           /\ Len(result) = 1
           /\ EnrichmentKeys \subseteq DOMAIN result[1]
           /\ Enrichment(result[1]) = HeaderValues(latest_settled)

C8_Witness ==
    /\ Done
    /\ settlement # NoneObj
    /\ Strategy1Succeeded
    /\ latest_settled = Cert(2)

\* Values a header of the remote index carries in its four metadata keys.
CertificateValues ==
    {HeaderValues(h)[k] : h \in (SettledResults \cup KnownResults \cup HeaderResults)
                                    \ {NoneObj, MalformedObj},
                          k \in EnrichmentKeys} \ {None}

\* C9: when neither strategy succeeds the settlement is returned with all
\* four enrichment fields equal to 'N/A', a value that is not None, not
\* zero, not empty and not a value of any certificate.
C9_UnavailableSentinel ==
    (/\ Done
     /\ Len(result) = 1
     /\ rpc_calls # <<>>
     /\ ~Strategy1Succeeded
     /\ ~Strategy2Succeeded)
        => /\ EnrichmentKeys \subseteq DOMAIN result[1]
           /\ \A k \in EnrichmentKeys :
                 /\ result[1][k] = "N/A"
                 /\ result[1][k] \notin {None, "0", ""}
                 /\ result[1][k] \notin CertificateValues

C9_Witness ==
    /\ Done
    /\ Len(result) = 1
    /\ IsHeader(cert_header)
    /\ cert_header.prev_local_exit_root = settlement.prev_local_exit_root
    /\ cert_header.new_local_exit_root # settlement.new_local_exit_root
    /\ result[1].certificate_id = "N/A"

\* C10: one call of the correlator issues at most three remote calls, each
\* method at most once and in the order latest settled, latest known,
\* header by id, and no failure of a call raises.
C10_AtMostThreeCallsInOrder ==
    /\ ~raised
    /\ Len(rpc_calls) <= 3
    /\ \A i \in 1..Len(rpc_calls) :
          rpc_calls[i].method = <<"interop_getLatestSettledCertificateHeader",
                                  "interop_getLatestKnownCertificateHeader",
                                  "interop_getCertificateHeader">>[i]

C10_Witness ==
    /\ Done
    /\ Len(rpc_calls) = 3
    /\ latest_known # NoneObj
    /\ cert_header = NoneObj
    /\ Len(result) = 1
    /\ result[1].height = "N/A"

\* ---------------------------------------------------- get_relative_time
\* The text get_relative_time returns is kept by its parts, <<count, unit
\* word, "ago">>, as the f-string puts them together.  datetime.now() has a
\* sub-second part and the timestamp of a block has none: now is the pair of
\* its whole seconds and whether a fraction of a second follows them.
MaxCount == 2

\* The sizes of the units of lines 777-789, with 1 for the seconds.
UnitSizes == {1, 60, 3600, 86400, 2592000}

\* Ages around every multiple of every unit, and the ages 45 and 90.
Ages == {k * u + d : k \in 0..MaxCount, u \in UnitSizes, d \in {-1, 0, 1}} \cup {45, 90}

\* Times of two blocks, as get_block gives them.
Timestamps == {12 * b : b \in {1, chunk_size + 1}}

\* int(time_diff.total_seconds()): the difference, truncated towards zero.
TotalSeconds(current_time, settlement_time) ==
    LET whole == current_time.seconds - settlement_time
    IN IF whole < 0 /\ current_time.fraction THEN whole + 1 ELSE whole

\* Mutant of get_relative_time: every bucket includes its upper limit.
get_relative_time_Inclusive(current_time, settlement_time) ==
    LET total_seconds == TotalSeconds(current_time, settlement_time)
        minutes == total_seconds \div 60
        hours == total_seconds \div 3600
        days == total_seconds \div 86400
        months == total_seconds \div 2592000
    IN IF total_seconds <= 60
       THEN <<total_seconds, "seconds", "ago">>
       ELSE IF total_seconds <= 3600
       THEN <<minutes, IF minutes # 1 THEN "minutes" ELSE "minute", "ago">>
       ELSE IF total_seconds <= 86400
       THEN <<hours, IF hours # 1 THEN "hours" ELSE "hour", "ago">>
       ELSE IF total_seconds <= 2592000
       THEN <<days, IF days # 1 THEN "days" ELSE "day", "ago">>
       ELSE <<months, IF months # 1 THEN "months" ELSE "month", "ago">>

\* The body of get_relative_time for a timestamp datetime can represent.
get_relative_time(current_time, settlement_time) ==
    LET total_seconds == TotalSeconds(current_time, settlement_time)
        minutes == total_seconds \div 60
        hours == total_seconds \div 3600
        days == total_seconds \div 86400
        months == total_seconds \div 2592000
    IN IF total_seconds < 60
       THEN <<total_seconds, "seconds", "ago">>
       ELSE IF total_seconds < 3600
       THEN <<minutes, IF minutes # 1 THEN "minutes" ELSE "minute", "ago">>
       ELSE IF total_seconds < 86400
       THEN <<hours, IF hours # 1 THEN "hours" ELSE "hour", "ago">>
       ELSE IF total_seconds < 2592000
       THEN <<days, IF days # 1 THEN "days" ELSE "day", "ago">>
       ELSE <<months, IF months # 1 THEN "months" ELSE "month", "ago">>

\* No scan, decoding or correlation is in progress.
ScanIdle ==
    /\ current_settlement_block = NoneObj
    /\ agg_layer_url = None
    /\ chain = <<>>
    /\ search_block = 0
    /\ settlement = NoneObj
    /\ latest_settled = NoneObj
    /\ latest_known = NoneObj
    /\ cert_header = NoneObj
    /\ queries = <<>>
    /\ block_fetches = <<>>
    /\ receipt_fetches = <<>>
    /\ rpc_calls = <<>>
    /\ result = <<>>
    /\ raised = FALSE

InitTime ==
    /\ pc = "relative_time"
    /\ timestamp \in Timestamps
    /\ now \in {[seconds |-> t + d, fraction |-> f] :
                   t \in {timestamp}, d \in Ages, f \in BOOLEAN}
    /\ relative_time = <<>>
    /\ RepeatIdle
    /\ WebIdle
    /\ ScanIdle

\* One call of get_relative_time.
GetRelativeTime ==
    /\ pc = "relative_time"
    /\ relative_time' = get_relative_time(now, timestamp)
    /\ pc' = "done"
    /\ UNCHANGED <<now, timestamp>>
    /\ UNCHANGED <<repeat, web>>
    /\ UNCHANGED <<current_settlement_block, agg_layer_url, chain, search_block,
                   settlement, latest_settled, latest_known, cert_header, queries,
                   block_fetches, receipt_fetches, rpc_calls, result, raised>>

NextTime == GetRelativeTime

SpecTime == InitTime /\ [][NextTime]_vars

\* The age in whole seconds of a finished call.
Age == TotalSeconds(now, timestamp)

\* The unit words of one bucket, singular and plural.
Words(unit) ==
    CASE unit = 1 -> {"second", "seconds"}
      [] unit = 60 -> {"minute", "minutes"}
      [] unit = 3600 -> {"hour", "hours"}
      [] unit = 86400 -> {"day", "days"}
      [] unit = 2592000 -> {"month", "months"}

\* The unit the buckets of the claim give to an age.
BucketUnit(d) ==
    IF d < 60 THEN 1
    ELSE IF d < 3600 THEN 60
    ELSE IF d < 86400 THEN 3600
    ELSE IF d < 2592000 THEN 86400
    ELSE 2592000

\* C14: for every age d in whole seconds the text names the unit of the
\* bucket of d (below 60 seconds, below 3600 minutes, below 86400 hours,
\* below 2592000 days, otherwise months of 2592000 seconds) and prints the
\* floor of d divided by that unit; 45 gives "45 seconds ago", 90 gives
\* "1 minute ago", 7200 gives "2 hours ago" and 172800 gives "2 days ago".
C14_BucketsAndFloor ==
    (pc = "done" /\ relative_time # <<>>) =>
        /\ relative_time[1] = Age \div BucketUnit(Age)
        /\ relative_time[2] \in Words(BucketUnit(Age))
        /\ relative_time[3] = "ago"
        /\ Age = 45 => relative_time = <<45, "seconds", "ago">>
        /\ Age = 90 => relative_time = <<1, "minute", "ago">>
        /\ Age = 7200 => relative_time = <<2, "hours", "ago">>
        /\ Age = 172800 => relative_time = <<2, "days", "ago">>

\* An age at the lower limit of the months bucket has been put into words.
C14_Witness ==
    /\ pc = "done"
    /\ Age = 2592000
    /\ relative_time = <<1, "month", "ago">>

\* C15: in every bucket the unit word is singular exactly when the printed
\* count is 1 and plural otherwise.
C15_SingularExactlyForOne ==
    (pc = "done" /\ relative_time # <<>>) =>
        (relative_time[2] \in {"second", "minute", "hour", "day", "month"}
            <=> relative_time[1] = 1)

\* ------------------------------------------- the data section, digit by digit
\* The scanner's chains keep the data section of a log by its 32-byte words.
\* Here the data section is the sequence of its bytes, log.data.hex() is the
\* sequence of the characters of the hexadecimal text, and a root is the
\* sequence of characters that lines 941-945 cut out of it.
MaxDataBytes == 192

HexDigits == <<"0", "1", "2", "3", "4", "5", "6", "7",
               "8", "9", "a", "b", "c", "d", "e", "f">>

\* The two hexadecimal digits of every byte, in order.
HexOf(bytes) ==
    [i \in 1..(2 * Len(bytes)) |->
        IF i % 2 = 1 THEN HexDigits[(bytes[(i + 1) \div 2] \div 16) + 1]
                     ELSE HexDigits[(bytes[i \div 2] % 16) + 1]]

\* Mutant of hex: the text carries no "0x" in front of the digits.
hex_WithoutPrefix(bytes) == HexOf(bytes)

\* HexBytes.hex() of the web3 release the code is written for (the one whose
\* signed transactions have rawTransaction): "0x" and then the digits.
hex(bytes) == <<"0", "x">> \o HexOf(bytes)

\* text[a:b] for 0 <= a <= b: never raises, the text may be shorter than b.
Slice(text, a, b) ==
    LET first == IF a < Len(text) THEN a ELSE Len(text)
        last == IF b < Len(text) THEN b ELSE Len(text)
    IN SubSeq(text, first + 1, last)

\* data = log.data.hex()[2:] and the five roots cut out of it.
decode_data(bytes) ==
    LET data == Slice(hex(bytes), 2, Len(hex(bytes)))
    IN [prev_pessimistic_root |-> <<"0", "x">> \o Slice(data, 0, 64),
        new_pessimistic_root |-> <<"0", "x">> \o Slice(data, 64, 128),
        prev_local_exit_root |-> <<"0", "x">> \o Slice(data, 128, 192),
        new_local_exit_root |-> <<"0", "x">> \o Slice(data, 192, 256),
        l1_info_root |-> <<"0", "x">> \o Slice(data, 256, 320)]

\* A data section of n bytes, all different.
DataBytes(n) == [i \in 1..n |-> (7 * i) % 256]

\* Logs whose data section has 0..MaxDataBytes bytes, with 2 or 3 topics.
RawLogs ==
    {[Log(1, b, 1, nt) EXCEPT !.data = DataBytes(n)] :
        b \in {1}, nt \in {2, 3}, n \in 0..MaxDataBytes}

\* _decode_settlement_event(log) for a log of RawLogs: topics, block and
\* receipt as in _decode_settlement_event above, the roots by decode_data.
DecodeRaw(log, block_ok, receipt_ok) ==
    LET by_words == _decode_settlement_event(<<log>>, [log EXCEPT !.data = <<"", "", "", "", "">>],
                                            block_ok, receipt_ok)
    IN IF by_words.settlement = NoneObj
       THEN by_words
       ELSE [by_words EXCEPT !.settlement = Update(by_words.settlement, decode_data(log.data))]

InitDecode ==
    /\ pc = "decode"
    /\ chain \in {<<log>> : log \in RawLogs}
    /\ current_settlement_block = NoneObj
    /\ agg_layer_url = None
    /\ search_block = 0
    /\ settlement = NoneObj
    /\ latest_settled = NoneObj
    /\ latest_known = NoneObj
    /\ cert_header = NoneObj
    /\ queries = <<>>
    /\ block_fetches = <<>>
    /\ receipt_fetches = <<>>
    /\ rpc_calls = <<>>
    /\ result = <<>>
    /\ raised = FALSE
    /\ ClockIdle
    /\ RepeatIdle
    /\ WebIdle

\* One call of _decode_settlement_event on the log the chain holds.
Decode(block_ok, receipt_ok) ==
    /\ pc = "decode"
    /\ LET decoded == DecodeRaw(chain[1], block_ok, receipt_ok)
       IN /\ settlement' = decoded.settlement
          /\ block_fetches' =
                IF decoded.fetched_block
                THEN Append(block_fetches, [blockNumber |-> chain[1].blockNumber,
                                            ok |-> block_ok])
                ELSE block_fetches
          /\ receipt_fetches' =
                IF decoded.fetched_receipt
                THEN Append(receipt_fetches, [transactionHash |-> chain[1].transactionHash,
                                              ok |-> receipt_ok])
                ELSE receipt_fetches
    /\ pc' = "done"
    /\ UNCHANGED <<current_settlement_block, agg_layer_url, chain, search_block,
                   latest_settled, latest_known, cert_header, queries,
                   rpc_calls, result, raised>>
    /\ UNCHANGED apart

NextDecode == \E block_ok \in BOOLEAN, receipt_ok \in BOOLEAN : Decode(block_ok, receipt_ok)

SpecDecode == InitDecode /\ [][NextDecode]_vars

\* The names of the five roots, in the order of the data section.
RootNames == <<"prev_pessimistic_root", "new_pessimistic_root",
               "prev_local_exit_root", "new_local_exit_root", "l1_info_root">>

\* The log has been decoded and get_block answered.
DecodedWithBlock ==
    /\ pc = "done"
    /\ block_fetches # <<>>
    /\ block_fetches[1].ok

\* C12: decoding a log with 3 topics and a data section of 160 bytes gives
\* five roots of 32 bytes each; the k-th root, in the order prev pessimistic,
\* new pessimistic, prev local exit, new local exit, l1 info, is "0x" and the
\* digits of the 32 bytes that start at offset 32 * (k - 1) of the data.
C12_FiveRootsAtTheirOffsets ==
    (DecodedWithBlock /\ Len(chain[1].topics) = 3 /\ Len(chain[1].data) = 160) =>
        /\ settlement # NoneObj
        /\ \A k \in 1..5 :
              LET root == settlement[RootNames[k]]
              IN /\ Len(root) = 2 + 2 * 32
                 /\ root[1] = "0" /\ root[2] = "x"
                 /\ \A j \in 1..32 :
                       LET byte == chain[1].data[32 * (k - 1) + j]
                       IN /\ root[2 + 2 * j - 1] = HexDigits[(byte \div 16) + 1]
                          /\ root[2 + 2 * j] = HexDigits[(byte % 16) + 1]

\* A data section of 160 bytes has been decoded: the last root ends with the
\* digits of the byte at offset 159.
C12_Witness ==
    /\ DecodedWithBlock
    /\ Len(chain[1].topics) = 3
    /\ Len(chain[1].data) = 160
    /\ settlement # NoneObj
    /\ Len(settlement.l1_info_root) = 66
    /\ settlement.l1_info_root[66] = HexDigits[(((7 * 160) % 256) % 16) + 1]

\* C13: decoding a log whose data section is shorter than 160 bytes fails:
\* there is no settlement record, and so none with some roots populated and
\* others short or empty.
C13_ShortDataFails ==
    (pc = "done" /\ Len(chain[1].data) < 160) => settlement = NoneObj

\* ------------------------------------------------ the windows of one scan
\* The scan under weak fairness: the function runs on one thread and every
\* call it makes returns or raises (the HTTP calls have a timeout), so a step
\* that can be taken is taken.
SpecLive == Init /\ [][Next]_vars /\ WF_vars(Next)

\* C16: every log query of one scan has 0 <= fromBlock <= toBlock <
\* currentSettlementBlock and fromBlock = max(0, toBlock - 1000); the first
\* query ends at currentSettlementBlock - 1 and every later one at the
\* previous fromBlock - 1, so the windows are disjoint, contiguous and
\* strictly descending.
C16_WindowsDescendContiguously ==
    \A i \in 1..Len(queries) :
        LET q == queries[i]
        IN /\ 0 <= q.fromBlock
           /\ q.fromBlock <= q.toBlock
           /\ q.toBlock < current_settlement_block.int
           /\ q.fromBlock = (IF q.toBlock - 1000 > 0 THEN q.toBlock - 1000 ELSE 0)
           /\ i = 1 => q.toBlock = current_settlement_block.int - 1
           /\ i > 1 => q.toBlock = queries[i - 1].fromBlock - 1
           /\ \A j \in 1..(i - 1) : q.toBlock < queries[j].fromBlock

\* A scan has fetched three windows, the last of which starts at block 0.
C16_Witness ==
    /\ Len(queries) = 3
    /\ queries[1].toBlock - queries[1].fromBlock = 1000
    /\ queries[3].fromBlock = 0

\* C17: for every positive currentSettlementBlock and every behaviour of the
\* log source (empty, non-empty, undecodable, failing) the scanner reaches
\* DONE after finitely many log fetches, and search_block strictly decreases
\* with every iteration after which the loop goes on.
C17_EveryScanReachesDone ==
    /\ <>(pc = "done")
    /\ [][(pc = "loop" /\ pc' = "loop") => search_block' < search_block]_vars

\* A scan from a positive block ended after failing, empty and undecodable
\* answers of the log source.
C17_Witness ==
    /\ pc = "done"
    /\ ~InvalidBlock(current_settlement_block)
    /\ Len(queries) = 3
    /\ ~queries[3].ok
    /\ \E l \in {chain[i] : i \in 1..Len(chain)} :
          /\ Len(l.topics) < 3
          /\ queries[2].fromBlock <= l.blockNumber
          /\ l.blockNumber <= queries[2].toBlock

\* The logs the last query of the scan was answered with.
LastChunk ==
    get_logs(chain, queries[Len(queries)].fromBlock, queries[Len(queries)].toBlock)

\* C18: when one chunk query returns several matching logs, the scanner
\* selects an entry of the highest block number and returns exactly one
\* settlement; the other logs of that chunk do not appear in the result.
C18_OneSettlementOfTheHighestBlock ==
    (pc = "done" /\ result # <<>>) =>
        /\ Len(result) = 1
        /\ \A i \in 1..Len(LastChunk) :
              /\ LastChunk[i].blockNumber <= result[1].block_number
              /\ LastChunk[i].blockNumber < result[1].block_number
                    => LastChunk[i].transactionHash # result[1].transaction_hash
        /\ \E i \in 1..Len(LastChunk) :
              /\ LastChunk[i].blockNumber = result[1].block_number
              /\ LastChunk[i].transactionHash = result[1].transaction_hash

\* A chunk with two logs of different blocks gave one settlement, the later.
C18_Witness ==
    /\ pc = "done"
    /\ Len(result) = 1
    /\ Len(LastChunk) = 2
    /\ LastChunk[1].blockNumber < LastChunk[2].blockNumber
    /\ result[1].transaction_hash = LastChunk[2].transactionHash

\* ---------------------------------------- the scan as a function of the chain
\* The loop of get_previous_settlement_event from search_block sb on, without
\* a URL and over sources that answer every call: the list it returns.
RECURSIVE ScanFrom(_, _)
ScanFrom(logs, sb) ==
    IF ~LoopCondition(sb)
    THEN <<>>
    ELSE LET from_block == FromBlock(sb)
             to_block == ToBlock(sb)
             found == get_logs(logs, from_block, to_block)
             decoded == _decode_settlement_event(logs, MaxByBlockNumber(found), TRUE, TRUE)
         IN IF SettlementFound(found, decoded.settlement)
            THEN <<decoded.settlement>>
            ELSE IF from_block = 0
            THEN <<>>
            ELSE ScanFrom(logs, NextSearchBlock(from_block, to_block))

\* The chain without its i-th log.
Without(logs, i) == SubSeq(logs, 1, i - 1) \o SubSeq(logs, i + 1, Len(logs))

\* Every call of the scan was answered, and no URL was given.
BareScanAnswered ==
    /\ pc = "done"
    /\ ~InvalidBlock(current_settlement_block)
    /\ ~Truthy(agg_layer_url)
    /\ AllFetchesOk
    /\ \A i \in 1..Len(receipt_fetches) : receipt_fetches[i].ok

\* C19: when a log entry fails to decode, the scan goes on as if the entry
\* were absent: its result is the result of the same scan over the log source
\* without that entry, so that a decodable log of the same chunk or of an
\* older chunk is still returned.
C19_AsIfTheEntryWereAbsent ==
    BareScanAnswered =>
        \A i \in 1..Len(chain) :
            Len(chain[i].topics) < 3 =>
                result = ScanFrom(Without(chain, i), current_settlement_block.int - 1)

\* C20: a failure of the log fetch is neither propagated nor retried: no
\* block window is fetched twice, and the failing fetch is the last fetch of
\* the scan, which ends with the empty list.
C20_FailedFetchEndsTheScan ==
    /\ ~raised
    /\ \A i \in 1..Len(queries) : \A j \in 1..Len(queries) :
          (i # j) => (queries[i].fromBlock # queries[j].fromBlock
                      /\ queries[i].toBlock # queries[j].toBlock)
    /\ \A i \in 1..Len(queries) :
          ~queries[i].ok => /\ i = Len(queries)
                            /\ pc = "done"
                            /\ result = <<>>
                            /\ rpc_calls = <<>>

\* The second window of a scan could not be fetched, after a first window
\* whose log was decoded with the help of get_block.
C20_Witness ==
    /\ pc = "done"
    /\ Len(queries) = 2
    /\ queries[1].ok
    /\ ~queries[2].ok
    /\ block_fetches # <<>>
    /\ result = <<>>

\* ------------------------------------------ the correlator, called twice
\* The remote index answers every method the same way both times; the second
\* call is given either the dictionary the first call updated in place or a
\* dictionary equal to the one the first call was given.
\* The settlements the decoder makes of the logs of a chain, with and without
\* the receipt.
Settlements ==
    LET logs == [i \in 1..MaxEvents |-> Log(i, i, i, 3)]
    IN {_decode_settlement_event(logs, logs[i], TRUE, receipt_ok).settlement :
            i \in 1..MaxEvents, receipt_ok \in BOOLEAN}

\* One answer of the remote index for each of the three methods.
Indexes ==
    [settled : HttpOutcomes(SettledResults),
     known : HttpOutcomes(KnownResults),
     header : HttpOutcomes(HeaderResults)]

InitRepeat ==
    /\ pc = "enrich"
    /\ settlement \in Settlements
    /\ given = settlement
    /\ index \in Indexes
    /\ returned = <<>>
    /\ agg_layer_url = "http://agglayer"
    /\ current_settlement_block = NoneObj
    /\ chain = <<>>
    /\ search_block = 0
    /\ latest_settled = NoneObj
    /\ latest_known = NoneObj
    /\ cert_header = NoneObj
    /\ queries = <<>>
    /\ block_fetches = <<>>
    /\ receipt_fetches = <<>>
    /\ rpc_calls = <<>>
    /\ result = <<>>
    /\ raised = FALSE
    /\ ClockIdle
    /\ WebIdle

\* The second call of _enrich_settlement_with_certificate_data, up to
\* "if not settlement_tx_hash: return settlement".
CallAgain(fresh) ==
    /\ pc = "done"
    /\ result # <<>>
    /\ returned = <<>>
    /\ returned' = result
    /\ LET s == IF fresh THEN given ELSE result[1]
       IN /\ settlement' = s
          /\ IF Truthy(Get(s, "transaction_hash"))
             THEN /\ pc' = "enrich"
                  /\ UNCHANGED <<result, raised>>
             ELSE Return(<<s>>)
    /\ UNCHANGED <<current_settlement_block, agg_layer_url, chain, search_block,
                   latest_settled, latest_known, cert_header, queries,
                   block_fetches, receipt_fetches, rpc_calls>>
    /\ UNCHANGED <<clock, web, index, given>>

NextRepeat ==
    \/ \E fresh \in BOOLEAN : CallAgain(fresh)
    \/ EnrichSettled(index.settled)
    \/ EnrichKnown(index.known)
    \/ EnrichHeader(index.header)

SpecRepeat == InitRepeat /\ [][NextRepeat]_vars

\* C11: the correlator called twice with the same settlement, rollup id and
\* URL against an unchanged remote index returns the same output both times,
\* also when the second call is given the output of the first call, updated
\* in place, as its settlement.
C11_SecondCallReturnsTheSame ==
    (pc = "done" /\ returned # <<>>) => result = returned

\* Two calls have each needed all three requests and both have returned the
\* settlement with the metadata of the certificate whose roots match.
C11_Witness ==
    /\ pc = "done"
    /\ returned # <<>>
    /\ Len(rpc_calls) = 6
    /\ result = returned
    /\ result[1].certificate_id = CertIds[1]
    /\ result[1].height = Heights[1]

\* ------------------------------------------------ the correlator, called once
\* One call of _enrich_settlement_with_certificate_data on a settlement of
\* the decoder, against a remote index whose answers are fixed in index.
NextCorrelate ==
    \/ EnrichSettled(index.settled)
    \/ EnrichKnown(index.known)
    \/ EnrichHeader(index.header)

SpecCorrelate == InitRepeat /\ [][NextCorrelate]_vars

\* C21 as claimed: whenever strategy 1 does not succeed (the latest settled
\* header names another transaction, or its fetch failed or gave an absent
\* result) the correlator fetches the latest known certificate before it
\* resorts to the sentinel.
C21_Strategy2AfterEveryFailure ==
    (pc = "done" /\ ~Strategy1Succeeded)
        => /\ Len(rpc_calls) >= 2
           /\ rpc_calls[2].method = "interop_getLatestKnownCertificateHeader"

\* C21 as amended: when a latest settled header was obtained and names
\* another transaction, the correlator fetches the latest known certificate
\* before it resorts to the sentinel; when the latest settled fetch failed or
\* gave an absent or unusable result, it resorts to the sentinel at once,
\* after that single call.
C21_Strategy2OnlyAfterAnObtainedHeader ==
    (pc = "done" /\ ~Strategy1Succeeded)
        => IF IsHeader(latest_settled)
           THEN /\ Len(rpc_calls) >= 2
                /\ rpc_calls[2].method = "interop_getLatestKnownCertificateHeader"
           ELSE /\ Len(rpc_calls) = 1
                /\ rpc_calls[1].method = "interop_getLatestSettledCertificateHeader"
                /\ latest_known = NoneObj
                /\ Enrichment(result[1]) = AllUnavailable

\* The latest settled fetch gave nothing and the settlement came back with
\* the sentinel after that one call.
C21_Witness ==
    /\ pc = "done"
    /\ latest_settled = NoneObj
    /\ Len(rpc_calls) = 1
    /\ Len(result) = 1
    /\ result[1].certificate_id = "N/A"

\* C22: strategy 2 adopts certificate metadata only when both local exit
\* roots of the header fetched by the id of the latest known certificate
\* equal the settlement's own roots; the adopted values are those of that
\* fetched header; if either root differs, the four fields carry the
\* sentinel and no value of that certificate.
C22_AdoptsOnlyOnBothRoots ==
    (pc = "done" /\ Len(rpc_calls) = 3)
        => /\ rpc_calls[3].method = "interop_getCertificateHeader"
           /\ rpc_calls[3].params = <<latest_known.certificate_id>>
           /\ IF Strategy2Succeeded
              THEN Enrichment(result[1]) = HeaderValues(cert_header)
              ELSE /\ Enrichment(result[1]) = AllUnavailable
                   /\ IsHeader(cert_header)
                         => \A k \in EnrichmentKeys :
                               result[1][k] # HeaderValues(cert_header)[k]

\* The header fetched by the id of the latest known certificate is not the
\* latest known header itself, has both roots of the settlement, and its
\* values were adopted.
C22_Witness ==
    /\ pc = "done"
    /\ Len(rpc_calls) = 3
    /\ Strategy2Succeeded
    /\ IsHeader(latest_known)
    /\ latest_known # cert_header
    /\ result[1].certificate_id = cert_header.certificate_id
    /\ result[1].certificate_id # latest_known.certificate_id

\* C23: the correlator inspects the latest settled certificate and the one
\* latest known certificate only: interop_getCertificateHeader is called at
\* most once and for no id but that of the latest known certificate, and
\* when the certificate that matches the settlement is older than both the
\* latest settled and the latest known certificate, the result carries the
\* sentinel.
C23_OnlyTheLatestKnownIsInspected ==
    /\ \A i \in 1..Len(rpc_calls) :
          rpc_calls[i].method = "interop_getCertificateHeader"
              => /\ i = 3
                 /\ rpc_calls[i].params = <<latest_known.certificate_id>>
    /\ \A i \in 1..MaxEvents : \A j \in (i + 1)..MaxEvents : \A k \in (i + 1)..MaxEvents :
          (/\ pc = "done"
           /\ result[1].transaction_hash = TxHashes[i]
           /\ RootsMatch(Cert(i), result[1])
           /\ latest_settled = Cert(j)
           /\ latest_known = Cert(k)
           /\ cert_header \in {NoneObj, Cert(k)})
              => Enrichment(result[1]) = AllUnavailable

\* The settlement of the first log met an index whose latest settled and
\* latest known certificate is the second: all three calls were made and the
\* settlement carries the sentinel.
C23_Witness ==
    /\ pc = "done"
    /\ Len(rpc_calls) = 3
    /\ result[1].transaction_hash = TxHashes[1]
    /\ RootsMatch(Cert(1), result[1])
    /\ latest_settled = Cert(2)
    /\ latest_known = Cert(2)
    /\ cert_header = Cert(2)
    /\ Enrichment(result[1]) = AllUnavailable

\* ------------------------------------- the correlator's outer except clause
\* Outside the inner try the correlator only reads the settlement, prints and
\* updates the settlement, and the handler of the inner try prints too; when
\* one of these statements raises (a print that cannot write its text), the
\* outer handler of lines 1052-1062 writes a description in place of the four
\* values.  The other specifications take these statements not to raise.
\* f'Certificate for {tx_hash}...' with tx_hash = transaction_hash[:10]
Described(tx) ==
    CASE tx = TxHashes[1] -> "Certificate for 0xt1..."
      [] tx = TxHashes[2] -> "Certificate for 0xt2..."
      [] tx = TxHashes[3] -> "Certificate for 0xt3..."
      [] tx = TxHashes[4] -> "Certificate for 0xt4..."
      [] OTHER -> "Certificate for unknown..."

\* except Exception as e: ... settlement.update({...}); return settlement
InternalFailure ==
    /\ pc \in {"enrich", "enrich_known", "enrich_header"}
    /\ LET tx_hash == Get(settlement, "transaction_hash")
           described == [height |-> Described(tx_hash),
                         epoch_number |-> Described(tx_hash),
                         certificate_index |-> Described(tx_hash),
                         certificate_id |-> Described(tx_hash)]
       IN /\ settlement' = Update(settlement, described)
          /\ Return(<<Update(settlement, described)>>)
    /\ UNCHANGED <<current_settlement_block, agg_layer_url, chain, search_block,
                   latest_settled, latest_known, cert_header, queries,
                   block_fetches, receipt_fetches, rpc_calls>>
    /\ UNCHANGED apart

NextCorrelateOrFail ==
    \/ EnrichSettled(index.settled)
    \/ EnrichKnown(index.known)
    \/ EnrichHeader(index.header)
    \/ InternalFailure

SpecCorrelateOrFail == InitRepeat /\ [][NextCorrelateOrFail]_vars

\* The fields the decoder gives a settlement.
EventFields ==
    {"block_number", "transaction_hash", "timestamp", "rollup_id",
     "trusted_aggregator", "prev_pessimistic_root", "new_pessimistic_root",
     "prev_local_exit_root", "new_local_exit_root", "l1_info_root",
     "settlement_gas_used", "settlement_block_hash"}

\* C27: on every path of the correlator (strategy 1 match, strategy 2 match,
\* sentinel, internal failure) the event fields of the settlement keep the
\* values they were given; only height, epoch_number, certificate_index and
\* certificate_id are written.
C27_OnlyTheFourFieldsAreWritten ==
    /\ EventFields \subseteq DOMAIN given
    /\ DOMAIN given \subseteq DOMAIN settlement
    /\ DOMAIN settlement \subseteq DOMAIN given \cup EnrichmentKeys
    /\ \A k \in DOMAIN given : settlement[k] = given[k]
    /\ pc = "done" => /\ result = <<settlement>>
                      /\ EnrichmentKeys \subseteq DOMAIN settlement

\* After two answered calls a statement of the correlator raised: the
\* settlement came back with the description in the four fields and with the
\* event fields it was given, the absent gas and block hash among them.
C27_Witness ==
    /\ pc = "done"
    /\ Len(rpc_calls) = 2
    /\ cert_header = NoneObj
    /\ given.settlement_gas_used = None
    /\ result[1].settlement_gas_used = None
    /\ result[1].transaction_hash = given.transaction_hash
    /\ result[1].height = Described(given.transaction_hash)
    /\ EnrichmentKeys \cap DOMAIN given = {}

\* C24: when the receipt fetch fails while decoding a log whose block fetch
\* succeeded, decoding still succeeds: the settlement record carries every
\* event field of the log and of its block, and gas used and block hash are
\* both None, never one of them present and the other absent.
C24_ReceiptFailureLeavesBothAbsent ==
    (/\ DecodedWithBlock
     /\ Len(chain[1].topics) = 3
     /\ Len(chain[1].data) >= 160
     /\ receipt_fetches # <<>>
     /\ ~receipt_fetches[1].ok)
          => /\ settlement # NoneObj
             /\ settlement.settlement_gas_used = None
             /\ settlement.settlement_block_hash = None
             /\ settlement.block_number = chain[1].blockNumber
             /\ settlement.transaction_hash = chain[1].transactionHash
             /\ settlement.timestamp = get_block(chain, chain[1].blockNumber).timestamp
             /\ settlement.rollup_id = "1"
             /\ settlement.trusted_aggregator = "0xaaaaaaaaaaaaaaaaaaaaaaaaaaaaaaaaaaaaaaaa"
             /\ \A k \in 1..5 : Len(settlement[RootNames[k]]) = 66

\* A log with the six words of the event was decoded although its receipt
\* could not be fetched.
C24_Witness ==
    /\ DecodedWithBlock
    /\ Len(chain[1].data) = 192
    /\ receipt_fetches = <<[transactionHash |-> chain[1].transactionHash, ok |-> FALSE]>>
    /\ settlement # NoneObj
    /\ settlement.settlement_gas_used = None
    /\ settlement.settlement_block_hash = None

\* ------------------------------------------------ call_agglayer_rpc, by steps
\* The body of call_agglayer_rpc statement by statement: the exceptions it
\* raises inside its try block and what its handler does with them.

\* dict.get(key) where the values are objects.
GetObj(d, k) == IF k \in DOMAIN d THEN d[k] ELSE NoneObj

\* The classes of the exceptions raised inside the try block:
\* requests.post (timeout, refused connection), the two raise statements,
\* response.json() and the uses of data when it is not a dictionary.
ExceptionClasses ==
    {"Timeout", "ConnectionError", "Exception", "JSONDecodeError",
     "AttributeError"}

\* Mutant of Catches: only the exceptions of requests are caught.
Catches_RequestsOnly(e) == e \in {"Timeout", "ConnectionError", "JSONDecodeError"}

\* "except Exception as e": every class above derives from Exception.
Catches(e) == e \in ExceptionClasses

\* A JSON body that is a list instead of an object.
JsonList == [json_list |-> <<>>]

\* JSON bodies a server can answer with.
JsonBodies ==
    {JsonList, <<>>,
     [result |-> NoneObj], [result |-> Cert(1)], [result |-> MalformedObj],
     [error |-> "e"], [error |-> None, result |-> Cert(1)],
     [jsonrpc |-> "2.0", id |-> 1, result |-> Cert(2)]}

\* What requests.post ends in: an exception of requests, or a response with
\* a status code whose body is JSON or not.
PostOutcomes ==
    {[raises |-> e] : e \in {"Timeout", "ConnectionError"}}
    \cup {[status_code |-> c, is_json |-> FALSE] : c \in {200, 404, 500}}
    \cup {[status_code |-> c, is_json |-> TRUE, data |-> d] :
             c \in {200, 404, 500}, d \in JsonBodies}

RpcMethods ==
    {SettledMethod, KnownMethod, HeaderMethod, "interop_getEpochConfiguration"}

\* The arguments of one call and what the server will do with its request.
RpcRequests ==
    [url : {"http://agglayer"}, method : RpcMethods, params : {None, <<1>>},
     http : PostOutcomes]

InitRpc ==
    /\ pc = "rpc"
    /\ request \in RpcRequests
    /\ response = NoneObj
    /\ sent = <<>>
    /\ posts = <<>>
    /\ current_settlement_block = NoneObj
    /\ agg_layer_url = None
    /\ chain = <<>>
    /\ search_block = 0
    /\ settlement = NoneObj
    /\ latest_settled = NoneObj
    /\ latest_known = NoneObj
    /\ cert_header = NoneObj
    /\ queries = <<>>
    /\ block_fetches = <<>>
    /\ receipt_fetches = <<>>
    /\ rpc_calls = <<>>
    /\ result = <<>>
    /\ raised = FALSE
    /\ ClockIdle
    /\ RepeatIdle

\* What the actions of call_agglayer_rpc leave alone.
RpcFrame ==
    UNCHANGED <<current_settlement_block, agg_layer_url, chain, search_block,
                settlement, latest_settled, latest_known, cert_header, queries,
                block_fetches, receipt_fetches, rpc_calls, result, clock,
                repeat, request, sent>>

\* "if params is None: params = []", the payload and requests.post.
RpcPost ==
    /\ pc = "rpc"
    /\ posts' = Append(posts,
          [url |-> request.url, method |-> request.method,
           params |-> IF request.params = None THEN <<>> ELSE request.params])
    /\ pc' = IF "raises" \in DOMAIN request.http
             THEN "rpc_except_" \o request.http.raises
             ELSE "rpc_response"
    /\ UNCHANGED <<response, raised>>
    /\ RpcFrame

\* The exception the statements after requests.post raise, or "" when they
\* reach the return statement.
RaisedAfterPost(http) ==
    IF http.status_code # 200 THEN "Exception"
    ELSE IF ~http.is_json THEN "JSONDecodeError"
    ELSE IF http.data = JsonList THEN "AttributeError"
    ELSE IF "error" \in DOMAIN http.data THEN "Exception"
    ELSE ""

\* The status check, response.json(), the error check and the return.
RpcResponse ==
    /\ pc = "rpc_response"
    /\ LET e == RaisedAfterPost(request.http)
       IN IF e # ""
          THEN /\ pc' = "rpc_except_" \o e
               /\ UNCHANGED <<response, raised>>
          ELSE /\ pc' = "rpc_done"
               /\ response' = [returned |-> GetObj(request.http.data, "result")]
               /\ raised' = FALSE
    /\ UNCHANGED posts
    /\ RpcFrame

\* "except Exception as e: print(...); return None"
RpcExcept ==
    /\ \E e \in ExceptionClasses :
          /\ pc = "rpc_except_" \o e
          /\ IF Catches(e)
             THEN /\ response' = [returned |-> NoneObj]
                  /\ raised' = FALSE
             ELSE /\ response' = NoneObj
                  /\ raised' = TRUE
    /\ pc' = "rpc_done"
    /\ UNCHANGED posts
    /\ RpcFrame

NextRpc ==
    \/ RpcPost
    \/ RpcResponse
    \/ RpcExcept

SpecRpc == InitRpc /\ [][NextRpc]_vars

\* The response was an HTTP 200 whose JSON object has no error member.
AnsweredWithoutError(http) ==
    /\ "raises" \notin DOMAIN http
    /\ http.status_code = 200
    /\ http.is_json
    /\ http.data # JsonList
    /\ "error" \notin DOMAIN http.data

\* C25: call_agglayer_rpc never raises; it returns the result member of an
\* HTTP 200 response without an error member, and None for a status other
\* than 200, for a response with an error member and for a transport failure
\* or timeout; every call issues exactly one request, with the method and the
\* parameters it was given (an empty list when none were given).
C25_OneRequestAndNeverRaises ==
    pc = "rpc_done" =>
       /\ ~raised
       /\ Len(posts) = 1
       /\ posts[1].method = request.method
       /\ posts[1].params = (IF request.params = None THEN <<>> ELSE request.params)
       /\ response = [returned |->
             IF AnsweredWithoutError(request.http)
             THEN GetObj(request.http.data, "result")
             ELSE NoneObj]

\* An HTTP 500 answer ended in None, after one request.
C25_Witness ==
    /\ pc = "rpc_done"
    /\ "status_code" \in DOMAIN request.http
    /\ request.http.status_code = 500
    /\ response = [returned |-> NoneObj]
    /\ Len(posts) = 1

\* ------------------------------------------------ a scan without a URL
\* C26: a call of get_previous_settlement_event without a remote index URL
\* (None or the empty string) makes no call to the remote index and returns
\* the decoded settlement with none of the four enrichment keys, whereas a
\* settlement returned by a call with a URL carries all four of them: fields
\* absent (no lookup) differ from fields equal to the 'N/A' marker (no match).
C26_NoUrlNoLookupNoFields ==
    (Done /\ ~raised) =>
       /\ agg_layer_url \in {None, ""} =>
             /\ rpc_calls = <<>>
             /\ result \in {<<>>, <<settlement>>}
             /\ \A i \in 1..Len(result) : DOMAIN result[i] \cap EnrichmentKeys = {}
       /\ (agg_layer_url \notin {None, ""} /\ result # <<>>) =>
             /\ rpc_calls # <<>>
             /\ EnrichmentKeys \subseteq DOMAIN result[1]

\* A scan with the empty string for URL returned a decoded settlement.
C26_Witness ==
    /\ Done
    /\ agg_layer_url = ""
    /\ result = <<settlement>>
    /\ rpc_calls = <<>>
    /\ "transaction_hash" \in DOMAIN result[1]
    /\ DOMAIN result[1] \cap EnrichmentKeys = {}

\* ------------------------------------------------- the rollup detail request
\* rollup_detail of app.py with get_certificate_data and
\* get_settlement_transaction_data: whether the backward scanner is run.

\* What the L1 node answers to the receipt and block lookups of
\* get_settlement_transaction_data.
L1Lookups ==
    {[receipt_ok |-> FALSE, block_ok |-> TRUE, blockNumber |-> 2],
     [receipt_ok |-> TRUE, block_ok |-> FALSE, blockNumber |-> 2]}
    \cup {[receipt_ok |-> TRUE, block_ok |-> TRUE, blockNumber |-> n] :
             n \in {0, 1, chunk_size + 3}}

\* get_settlement_transaction_data(tx_hash): the L1 fields of the settlement
\* transaction, or the empty dictionary when a lookup fails.  Of the fields
\* only those of the receipt and the block that the handlers read are kept.
get_settlement_transaction_data(tx_hash, l1) ==
    IF l1.receipt_ok /\ l1.block_ok
    THEN [settlement_block_number |-> l1.blockNumber,
          settlement_status |-> "Success",
          settlement_block_hash |-> "0xb1"]
    ELSE <<>>

\* "if c and c.get('settlement_tx_hash'): c.update(l1_data)"
Enhanced(c, l1) ==
    IF TruthyObj(c) /\ Truthy(Get(c, "settlement_tx_hash"))
    THEN Update(c, get_settlement_transaction_data(c.settlement_tx_hash, l1))
    ELSE c

\* The dictionary get_certificate_data returns without a URL and after an
\* exception.
NoCertificateData ==
    [settled |-> NoneObj, pending |-> NoneObj, latest_known |-> NoneObj,
     epoch_config |-> NoneObj]

\* get_certificate_data(rollup_id, agg_layer_url).  A result that is not a
\* dictionary makes ".get" raise, which the outer handler answers with the
\* dictionary of None values.
get_certificate_data(url, idx, l1) ==
    IF ~Truthy(url) THEN NoCertificateData
    ELSE LET settled == call_agglayer_rpc(idx.settled)
             known == call_agglayer_rpc(idx.known)
         IN IF settled = MalformedObj \/ known = MalformedObj
            THEN NoCertificateData
            ELSE [settled |-> Enhanced(settled, l1),
                  pending |-> call_agglayer_rpc(idx.pending),
                  latest_known |-> Enhanced(known, l1),
                  epoch_config |-> call_agglayer_rpc(idx.epoch)]

\* The calls get_certificate_data makes to the remote index, in order.
CertificateCalls(url, idx) ==
    LET call(m, p) == [method |-> m, params |-> p]
        first == <<call(SettledMethod, <<"rollup_id">>)>>
        second == <<call("interop_getLatestPendingCertificateHeader", <<"rollup_id">>),
                    call(KnownMethod, <<"rollup_id">>)>>
        third == <<call("interop_getEpochConfiguration", <<>>)>>
    IN IF ~Truthy(url) THEN <<>>
       ELSE IF call_agglayer_rpc(idx.settled) = MalformedObj THEN first
       ELSE IF call_agglayer_rpc(idx.known) = MalformedObj THEN first \o second
       ELSE first \o second \o third

\* The receipt lookups get_certificate_data makes through
\* get_settlement_transaction_data, in order.
CertificateReceiptFetches(url, idx, l1) ==
    LET settled == call_agglayer_rpc(idx.settled)
        known == call_agglayer_rpc(idx.known)
        fetch(c) == IF c # MalformedObj /\ TruthyObj(c)
                       /\ Truthy(Get(c, "settlement_tx_hash"))
                    THEN <<[transactionHash |-> c.settlement_tx_hash,
                            ok |-> l1.receipt_ok]>>
                    ELSE <<>>
    IN IF ~Truthy(url) \/ settled = MalformedObj THEN <<>>
       ELSE fetch(settled) \o fetch(known)

\* Mutant of current_block: a settlement block number of 0 is passed on.
current_block_ZeroAccepted(rollup_data) ==
    LET certificates == IF "certificates" \in DOMAIN rollup_data
                        THEN rollup_data.certificates ELSE <<>>
        settled_cert == GetObj(certificates, "settled")
    IN IF TruthyObj(settled_cert) /\ "settlement_block_number" \in DOMAIN settled_cert
       THEN PyInt(settled_cert.settlement_block_number)
       ELSE NoneObj

\* current_block of rollup_detail: the settlement block number of the settled
\* certificate when it has a non-zero one, None otherwise.
current_block(rollup_data) ==
    LET certificates == IF "certificates" \in DOMAIN rollup_data
                        THEN rollup_data.certificates ELSE <<>>
        settled_cert == GetObj(certificates, "settled")
    IN IF TruthyObj(settled_cert) /\ "settlement_block_number" \in DOMAIN settled_cert
          /\ settled_cert.settlement_block_number # 0
       THEN PyInt(settled_cert.settlement_block_number)
       ELSE NoneObj

\* Chains the detail request is checked on: at most one matching log, well formed.
DetailChains == {c \in Chains : Len(c) <= 1 /\ \A i \in 1..Len(c) : Len(c[i].topics) = 3}

\* What the remote index answers to the methods of get_certificate_data and
\* of the correlator while one request is served.
DetailIndexes ==
    [settled : HttpOutcomes({NoneObj, MalformedObj, AnonymousCert} \cup Certificates),
     known : HttpOutcomes({NoneObj, MalformedObj, Cert(1)}),
     pending : {[kind |-> "response", status_code |-> 200, has_error |-> FALSE,
                 result |-> NoneObj]},
     epoch : {[kind |-> "exception"]},
     header : {[kind |-> "response", status_code |-> 200, has_error |-> FALSE,
                result |-> Cert(1)]}]

\* A request for /rollup/{rollup_id}: whether the rollup manager knows the
\* rollup, and what the remote index and the L1 node answer while it is served.
DetailRequests ==
    [handler : {"rollup_detail"}, rollup_found : BOOLEAN,
     index : DetailIndexes, l1 : L1Lookups]

InitDetail ==
    /\ pc = "detail"
    /\ request \in DetailRequests
    /\ agg_layer_url \in Urls
    /\ chain \in DetailChains
    /\ response = NoneObj
    /\ sent = <<>>
    /\ posts = <<>>
    /\ current_settlement_block = NoneObj
    /\ search_block = 0
    /\ settlement = NoneObj
    /\ latest_settled = NoneObj
    /\ latest_known = NoneObj
    /\ cert_header = NoneObj
    /\ queries = <<>>
    /\ block_fetches = <<>>
    /\ receipt_fetches = <<>>
    /\ rpc_calls = <<>>
    /\ result = <<>>
    /\ raised = FALSE
    /\ ClockIdle
    /\ RepeatIdle

\* rollup_detail from its entry to the call of get_previous_settlement_event
\* or, without a current block, to its answer.  agg_layer_url holds
\* env_config.aggLayerURL.
RollupDetail ==
    /\ pc = "detail"
    /\ IF ~request.rollup_found
       THEN /\ response' = [status_code |-> 404]
            /\ pc' = "responded"
            /\ UNCHANGED <<current_settlement_block, rpc_calls, receipt_fetches>>
       ELSE LET certificate_data ==
                    get_certificate_data(agg_layer_url, request.index, request.l1)
                rollup_data ==
                    IF Truthy(agg_layer_url)
                    THEN [rollupID |-> "rollup_id", certificates |-> certificate_data]
                    ELSE [rollupID |-> "rollup_id"]
                block == current_block(rollup_data)
            IN /\ rpc_calls' = CertificateCalls(agg_layer_url, request.index)
               /\ receipt_fetches' =
                     CertificateReceiptFetches(agg_layer_url, request.index, request.l1)
               /\ IF block # NoneObj
                  THEN /\ current_settlement_block' = block
                       /\ response' = [rollup |-> rollup_data]
                       /\ pc' = "call"
                  ELSE /\ response' =
                             [status_code |-> 200,
                              rollup |-> Update(rollup_data, [recentSettlements |-> <<>>])]
                       /\ pc' = "responded"
                       /\ UNCHANGED current_settlement_block
    /\ UNCHANGED <<agg_layer_url, chain, search_block, settlement, latest_settled,
                   latest_known, cert_header, queries, block_fetches, result,
                   raised, clock, repeat, request, sent, posts>>

\* rollup_detail after get_previous_settlement_event returned: the list is
\* stored and the page is answered; an exception would be answered with 404.
RollupDetailAnswer ==
    /\ pc = "done"
    /\ response' =
          IF raised THEN [status_code |-> 404]
          ELSE [status_code |-> 200,
                rollup |-> Update(response.rollup, [recentSettlements |-> result])]
    /\ pc' = "responded"
    /\ UNCHANGED <<current_settlement_block, agg_layer_url, chain, search_block,
                   settlement, latest_settled, latest_known, cert_header, queries,
                   block_fetches, receipt_fetches, rpc_calls, result, raised,
                   clock, repeat, request, sent, posts>>

NextDetail ==
    \/ RollupDetail
    \/ Call
    \/ LoopExit
    \/ \E logs_ok \in BOOLEAN, block_ok \in BOOLEAN, receipt_ok \in BOOLEAN :
          Iterate(logs_ok, block_ok, receipt_ok)
    \/ EnrichSettled(request.index.settled)
    \/ EnrichKnown(request.index.known)
    \/ EnrichHeader(request.index.header)
    \/ RollupDetailAnswer

SpecDetail == InitDetail /\ [][NextDetail]_vars

\* The remote index served a latest settled certificate with a settlement
\* transaction hash.
SettledCertificateServed ==
    /\ request.index.settled.kind = "response"
    /\ request.index.settled.status_code = 200
    /\ ~request.index.settled.has_error
    /\ request.index.settled.result \in Certificates

\* A URL is configured and the latest settled certificate got a non-zero
\* settlement block number from the L1 lookups.
CarriesSettlementBlock ==
    /\ agg_layer_url \notin {None, ""}
    /\ SettledCertificateServed
    /\ request.l1.receipt_ok
    /\ request.l1.block_ok
    /\ request.l1.blockNumber # 0

\* get_previous_settlement_event was called while the request was served.
ScannerCalled == current_settlement_block # NoneObj

\* C28: the rollup detail request calls the backward scanner only when a URL
\* is configured and the latest settled certificate carries a non-zero
\* settlement block number, and then from that block with that URL; in every
\* other case (no URL, no settled certificate, failed receipt lookup, block 0)
\* no log fetch is issued and the settlement list is the empty list; the
\* request of a known rollup is answered with 200 whether the list is empty
\* or not.
C28_ScannerOnlyFromASettledBlock ==
    (pc = "responded" /\ request.rollup_found) =>
       /\ ScannerCalled =>
             /\ CarriesSettlementBlock
             /\ current_settlement_block = PyInt(request.l1.blockNumber)
       /\ ~ScannerCalled =>
             /\ queries = <<>>
             /\ block_fetches = <<>>
             /\ response.rollup.recentSettlements = <<>>
       /\ ~CarriesSettlementBlock => ~ScannerCalled
       /\ response.status_code = 200
       /\ response.rollup.recentSettlements = result

\* The receipt lookup of a served settled certificate failed: no scan, an
\* empty list and a 200 answer.
C28_Witness ==
    /\ pc = "responded"
    /\ request.rollup_found
    /\ agg_layer_url = "http://agglayer"
    /\ SettledCertificateServed
    /\ ~request.l1.receipt_ok
    /\ receipt_fetches # <<>>
    /\ queries = <<>>
    /\ response.status_code = 200
    /\ response.rollup.recentSettlements = <<>>

\* The scanner was run from the settled block and found nothing.
C28_ScannedAndEmpty ==
    /\ pc = "responded"
    /\ ScannerCalled
    /\ queries # <<>>
    /\ response.status_code = 200
    /\ response.rollup.recentSettlements = <<>>

\* ------------------------------------------------ the administrative requests
\* toggle_optimistic_mode and update_threshold of app.py, with the rollup
\* list get_all_rollups gives them.

PyBool(b) == [bool |-> b]

\* Truth value of None, a boolean or an integer.
TruthyValue(o) ==
    IF o = NoneObj THEN FALSE
    ELSE IF "bool" \in DOMAIN o THEN o.bool
    ELSE o.int # 0

ZeroAddress == "0x0000000000000000000000000000000000000000"

\* A rollup as the chain holds it: the rollup manager's entry and what the
\* rollup contract answers to AGGCHAIN_TYPE, optimisticMode, useDefaultSigners,
\* getAggchainSignersCount and getThreshold.
OnChainRollups ==
    [rollupContract : {ZeroAddress, "0xrollup"},
     rollupVerifierType : {1, 2},
     aggchainType : {"FEP", "ECDSA"},
     optimisticMode : BOOLEAN,
     useDefaultSigners : BOOLEAN,
     rollupSignersCount : {0, 2},
     rollupThreshold : {1}]

\* get_rollup_data(rollup_id): the entry rollupIDToRollupDataV2 returns, by
\* name; of its fields the address, the verifier type and its class are kept.
get_rollup_data(rollups, rollup_id) ==
    IF rollup_id \in 1..Len(rollups)
    THEN [rollupContract |-> rollups[rollup_id].rollupContract,
          rollupVerifierType |-> rollups[rollup_id].rollupVerifierType,
          type |-> IF rollups[rollup_id].rollupVerifierType = 2
                   THEN "ALGateway" ELSE "PP"]
    ELSE NoneObj

\* The entry get_all_rollups makes of one rollup: the multisig fields are
\* placeholders, to be loaded later by another request.
ListedRollup(rollups, rollup_id) ==
    Update(get_rollup_data(rollups, rollup_id),
           [rollupID |-> rollup_id,
            isActive |-> rollups[rollup_id].rollupContract # ZeroAddress,
            rollupSignersCount |-> NoneObj,
            rollupThreshold |-> NoneObj,
            rollupSigners |-> <<>>,
            rollupMultisigHash |-> None,
            useDefaultSigners |-> NoneObj,
            aggchainType |-> None,
            optimisticMode |-> NoneObj])

\* get_all_rollups(): the entries of rollups 1..rollup_count.
get_all_rollups(rollups) ==
    [rollup_id \in 1..Len(rollups) |-> ListedRollup(rollups, rollup_id)]

\* next((r for r in rollups if r.get("rollupID") == rollup_id), None)
FindRollup(listed, rollup_id) ==
    IF \E i \in 1..Len(listed) : listed[i].rollupID = rollup_id
    THEN listed[CHOOSE i \in 1..Len(listed) :
                    /\ listed[i].rollupID = rollup_id
                    /\ \A j \in 1..(i - 1) : listed[j].rollupID # rollup_id]
    ELSE NoneObj

\* config_loader.get_l2_config(rollup_id): no entry, an entry with an empty
\* key, an entry with a key.
L2Configs == {NoneObj, [agchainmanager_key |-> ""], [agchainmanager_key |-> "0xkey"]}

\* "if not l2_config or not l2_config.agchainmanager_key"
NoKey(l2_config) == l2_config = NoneObj \/ ~Truthy(l2_config.agchainmanager_key)

\* "if not rollup_address or rollup_address == '0x00...00'"
InvalidAddress(rollup_address) == ~Truthy(rollup_address) \/ rollup_address = ZeroAddress

\* An HTTPException with a status code: no transaction was sent.
HttpError(code) == [status_code |-> code, sent |-> <<>>]

\* toggle_optimistic_mode(rollup_id): the answer and the transactions sent.
\* connected is w3.is_connected(); node_answers is false when the nonce or gas
\* price query raises, which the last handler answers with 500.
toggle_optimistic_mode(req) ==
    IF NoKey(req.l2_config) THEN HttpError(400)
    ELSE LET rollup == FindRollup(get_all_rollups(req.rollups), req.rollup_id)
         IN IF rollup = NoneObj THEN HttpError(404)
            ELSE IF rollup.rollupVerifierType # 2 \/ rollup.aggchainType # "FEP"
            THEN HttpError(400)
            ELSE LET current_optimistic_mode == rollup.optimisticMode
                     rollup_address == rollup.rollupContract
                     action == IF TruthyValue(current_optimistic_mode)
                               THEN "disable" ELSE "enable"
                 IN IF InvalidAddress(rollup_address) THEN HttpError(400)
                    ELSE IF ~req.connected THEN HttpError(500)
                    ELSE IF ~req.node_answers THEN HttpError(500)
                    ELSE [status_code |-> 200,
                          sent |-> <<[to |-> rollup_address,
                                      function |-> action \o "OptimisticMode",
                                      args |-> <<>>,
                                      key |-> req.l2_config.agchainmanager_key]>>,
                          body |-> [success |-> TRUE, action |-> action,
                                    new_state |-> ~TruthyValue(current_optimistic_mode)]]

ToggleRequests ==
    [handler : {"toggle_optimistic_mode"}, rollup_id : {1, 2},
     l2_config : L2Configs, rollups : {<<r>> : r \in OnChainRollups},
     connected : BOOLEAN, node_answers : BOOLEAN]

\* No scan, correlator call or clock reading is part of an administrative
\* request.
AdminIdle ==
    /\ response = NoneObj
    /\ sent = <<>>
    /\ posts = <<>>
    /\ current_settlement_block = NoneObj
    /\ agg_layer_url = None
    /\ chain = <<>>
    /\ search_block = 0
    /\ settlement = NoneObj
    /\ latest_settled = NoneObj
    /\ latest_known = NoneObj
    /\ cert_header = NoneObj
    /\ queries = <<>>
    /\ block_fetches = <<>>
    /\ receipt_fetches = <<>>
    /\ rpc_calls = <<>>
    /\ result = <<>>
    /\ raised = FALSE
    /\ ClockIdle
    /\ RepeatIdle

\* What an administrative request leaves alone.
AdminFrame ==
    UNCHANGED <<current_settlement_block, agg_layer_url, chain, search_block,
                settlement, latest_settled, latest_known, cert_header, queries,
                block_fetches, receipt_fetches, rpc_calls, result, raised,
                clock, repeat, request, posts>>

InitToggle ==
    /\ pc = "toggle"
    /\ request \in ToggleRequests
    /\ AdminIdle

\* POST /toggle-optimistic-mode/{rollup_id}
ToggleOptimisticMode ==
    /\ pc = "toggle"
    /\ LET outcome == toggle_optimistic_mode(request)
       IN /\ sent' = sent \o outcome.sent
          /\ response' = [k \in DOMAIN outcome \ {"sent"} |-> outcome[k]]
    /\ pc' = "responded"
    /\ AdminFrame

NextToggle == ToggleOptimisticMode

SpecToggle == InitToggle /\ [][NextToggle]_vars

\* The rollup of the request, as the chain holds it (NoneObj when the rollup
\* manager has no such rollup).
RequestedRollup ==
    IF request.rollup_id \in 1..Len(request.rollups)
    THEN request.rollups[request.rollup_id] ELSE NoneObj

\* The rollup of a toggle request has a key, exists, is a gateway rollup of
\* aggchain type FEP and has a non-zero contract address.
ToggleEligible ==
    /\ ~NoKey(request.l2_config)
    /\ RequestedRollup # NoneObj
    /\ RequestedRollup.rollupVerifierType = 2
    /\ RequestedRollup.aggchainType = "FEP"
    /\ RequestedRollup.rollupContract # ZeroAddress

\* No transaction is sent for a rollup that is not eligible or together with
\* an HTTP error, and a transaction that is sent calls disableOptimisticMode
\* exactly when the rollup's optimistic mode is on and reports the negation.
ToggleSendsOnlyWhenEligible ==
    pc = "responded" =>
       /\ sent = <<>> => response.status_code \in {400, 404, 500}
       /\ sent # <<>> =>
             /\ ToggleEligible
             /\ Len(sent) = 1
             /\ response.status_code = 200
             /\ sent[1].function =
                   (IF RequestedRollup.optimisticMode
                    THEN "disableOptimisticMode" ELSE "enableOptimisticMode")
             /\ response.body.new_state = ~RequestedRollup.optimisticMode

GetOr(d, k, default) == IF k \in DOMAIN d THEN d[k] ELSE default

\* update_threshold(rollup_id, new_threshold): the answer and the
\* transactions sent.  Comparing new_threshold with a signers count of None
\* raises a TypeError, which the last handler answers with 500.
update_threshold(req) ==
    IF NoKey(req.l2_config) THEN HttpError(400)
    ELSE LET rollup == FindRollup(get_all_rollups(req.rollups), req.rollup_id)
         IN IF rollup = NoneObj THEN HttpError(404)
            ELSE IF rollup.rollupVerifierType # 2 THEN HttpError(400)
            ELSE IF TruthyValue(GetOr(rollup, "useDefaultSigners", PyBool(TRUE)))
            THEN HttpError(400)
            ELSE IF req.new_threshold < 1 THEN HttpError(400)
            ELSE LET current_signers_count ==
                         GetOr(rollup, "rollupSignersCount", PyInt(0))
                     rollup_address == rollup.rollupContract
                 IN IF current_signers_count = NoneObj THEN HttpError(500)
                    ELSE IF req.new_threshold > current_signers_count.int
                            /\ current_signers_count.int > 0
                    THEN HttpError(400)
                    ELSE IF InvalidAddress(rollup_address) THEN HttpError(400)
                    ELSE IF ~req.connected THEN HttpError(500)
                    ELSE IF ~req.node_answers THEN HttpError(500)
                    ELSE [status_code |-> 200,
                          sent |-> <<[to |-> rollup_address,
                                      function |-> "updateSignersAndThreshold",
                                      args |-> <<<<>>, <<>>, req.new_threshold>>,
                                      key |-> req.l2_config.agchainmanager_key]>>,
                          body |-> [success |-> TRUE, action |-> "update_threshold",
                                    old_threshold |-> GetOr(rollup, "rollupThreshold", PyInt(0)),
                                    new_threshold |-> req.new_threshold]]

ThresholdRequests ==
    [handler : {"update_threshold"}, rollup_id : {1, 2}, new_threshold : {0, 1, 3},
     l2_config : L2Configs, rollups : {<<r>> : r \in OnChainRollups},
     connected : BOOLEAN, node_answers : BOOLEAN]

InitThreshold ==
    /\ pc = "threshold"
    /\ request \in ThresholdRequests
    /\ AdminIdle

\* POST /update-threshold/{rollup_id}
UpdateThreshold ==
    /\ pc = "threshold"
    /\ LET outcome == update_threshold(request)
       IN /\ sent' = sent \o outcome.sent
          /\ response' = [k \in DOMAIN outcome \ {"sent"} |-> outcome[k]]
    /\ pc' = "responded"
    /\ AdminFrame

NextThreshold == UpdateThreshold

SpecThreshold == InitThreshold /\ [][NextThreshold]_vars

\* Every check of update_threshold passes for the rollup of the request: a
\* key, a gateway rollup that exists and has signers of its own, a threshold
\* of at least 1 that does not exceed a positive signers count, a non-zero
\* contract address.
ThresholdEligible ==
    /\ ~NoKey(request.l2_config)
    /\ RequestedRollup # NoneObj
    /\ RequestedRollup.rollupVerifierType = 2
    /\ ~RequestedRollup.useDefaultSigners
    /\ request.new_threshold >= 1
    /\ ~(/\ RequestedRollup.rollupSignersCount > 0
         /\ request.new_threshold > RequestedRollup.rollupSignersCount)
    /\ RequestedRollup.rollupContract # ZeroAddress

\* No transaction is sent unless every check passed, and none together with
\* an HTTP error; a transaction that is sent calls updateSignersAndThreshold
\* with two empty lists and the new threshold.
ThresholdSendsOnlyWhenEligible ==
    pc = "responded" =>
       /\ sent = <<>> => response.status_code \in {400, 404, 500}
       /\ sent # <<>> =>
             /\ ThresholdEligible
             /\ Len(sent) = 1
             /\ response.status_code = 200
             /\ sent[1].function = "updateSignersAndThreshold"
             /\ sent[1].args = <<<<>>, <<>>, request.new_threshold>>

============================================================================
